---- MODULE Spec2Model ----
(***************************************************************************)
(* A model of altex: the LaTeX parser (altex/latex_parser.py) and the PDF  *)
(* structure-injection engine (altex/pdf_tagger.py).                       *)
(*                                                                         *)
(* Texts are sequences of one-character strings; PDF string operands are   *)
(* sequences of byte values.  Scores are exact rationals [num, den].       *)
(* Structure elements live in an arena (a sequence); a handle is an index  *)
(* into it and handle 0 is the structure tree root.                        *)
(***************************************************************************)
EXTENDS Integers, Sequences, FiniteSets, TLC

VARIABLES
    \* _match_score, called on its own
    needle, haystack, score,
    \* _tag_content_streams, one loop iteration at a time
    pdf_pages, instructions, rw, all_page_maps, rw_pc,
    \* parse: the readable source files, the tree, the position in parse
    \* and the calls of _parse_file that have not returned
    files, root, parse_pc, call_stack,
    \* tag: the semantic tree, the PDF, the locals of tag, the arena of
    \* structure elements, the position in tag
    tree, pdf, page_mcid_maps, struct_root, elems, leaf_elems, ownership,
    annot_parent_entries, tag_pc,
    \* DocumentNode.to_dict and from_dict: the node, its dictionary, the node
    \* read back, the position
    json_node, json_d, json_result, json_pc,
    \* main: the command line, the source file, the files on disk, the locals
    \* of main, what was printed, opened and written, the position in main,
    \* the exit status of the process
    argv, tex_file, disk, cli, io, cli_pc, exit_code

parseVars == <<files, root, parse_pc, call_stack>>
scoreVars == <<needle, haystack, score>>
rwVars == <<pdf_pages, instructions, rw, all_page_maps, rw_pc>>
tagVars == <<tree, pdf, page_mcid_maps, struct_root, elems, leaf_elems, ownership,
             annot_parent_entries, tag_pc>>
jsonVars == <<json_node, json_d, json_result, json_pc>>
cliVars == <<argv, tex_file, disk, cli, io, cli_pc, exit_code>>
vars == <<scoreVars, rwVars, parseVars, tagVars, jsonVars, cliVars>>

-----------------------------------------------------------------------------
(* Bounds of the model.                                                    *)

\* longest text handed to _match_score on its own
MaxTextLen == 3
\* content-stream instructions in the whole document
MaxInstr == 4
\* pages in the document whose content streams are rewritten step by step
MaxPages == 2
\* top-level nodes of the root source file
MaxNodes == 3
\* children of the document node handed to tag
MaxKids == 2
\* pages of the PDF handed to tag
MaxDocPages == 2
\* children of the node handed to to_dict
MaxJsonKids == 2
\* SpecInclude: the most nodes of a source file
MaxIncludeLen == 2
\* SpecInclude: the deepest nesting of _parse_file calls the interpreter
\* allows; it stands for sys.getrecursionlimit() and is above the depth a
\* chain of distinct files reaches
MaxDepth == 3

-----------------------------------------------------------------------------
(* Python helpers.                                                         *)

Min(a, b) == IF a < b THEN a ELSE b
Max(a, b) == IF a > b THEN a ELSE b

RECURSIVE Concat(_)
\* "".join(parts)
Concat(parts) ==
    IF parts = <<>> THEN <<>> ELSE Head(parts) \o Concat(Tail(parts))

UpperChars == <<"A", "B", "C", "D", "E", "F", "G", "H", "I", "J", "K", "L", "M",
                "N", "O", "P", "Q", "R", "S", "T", "U", "V", "W", "X", "Y", "Z">>
LowerChars == <<"a", "b", "c", "d", "e", "f", "g", "h", "i", "j", "k", "l", "m",
                "n", "o", "p", "q", "r", "s", "t", "u", "v", "w", "x", "y", "z">>

\* bytes(b).decode("latin-1"): byte value -> character, for the bytes used
Latin1Char(b) ==
    IF b = 32 THEN " "
    ELSE IF b >= 65 /\ b <= 90 THEN UpperChars[b - 64]
    ELSE IF b >= 97 /\ b <= 122 THEN LowerChars[b - 96]
    ELSE "?"

decode_latin1(bytes) == [i \in 1..Len(bytes) |-> Latin1Char(bytes[i])]

\* str.lower(), one character
LowerChar(c) ==
    IF \E i \in 1..Len(UpperChars) : UpperChars[i] = c
    THEN LowerChars[CHOOSE i \in 1..Len(UpperChars) : UpperChars[i] = c]
    ELSE c

lower(text) == [i \in 1..Len(text) |-> LowerChar(text[i])]

IsSpace(c) == c = " "

RECURSIVE SplitAcc(_, _, _)
SplitAcc(text, cur, acc) ==
    IF text = <<>> THEN (IF cur = <<>> THEN acc ELSE Append(acc, cur))
    ELSE IF IsSpace(Head(text))
         THEN SplitAcc(Tail(text), <<>>, IF cur = <<>> THEN acc ELSE Append(acc, cur))
         ELSE SplitAcc(Tail(text), Append(cur, Head(text)), acc)

\* str.split(): the maximal runs of non-whitespace, in order
split(text) == SplitAcc(text, <<>>, <<>>)

RECURSIVE join(_)
\* " ".join(words)
join(words) ==
    IF words = <<>> THEN <<>>
    ELSE IF Len(words) = 1 THEN words[1]
    ELSE words[1] \o <<" ">> \o join(Tail(words))

\* str.strip() leaves nothing exactly when the text is all whitespace
IsBlank(text) == \A i \in 1..Len(text) : IsSpace(text[i])

\* a in b, for strings
IsSubstr(a, b) ==
    \E i \in 0..(Len(b) - Len(a)) : SubSeq(b, i + 1, i + Len(a)) = a

\* set(text.split())
WordSet(text) == {split(text)[i] : i \in 1..Len(split(text))}

-----------------------------------------------------------------------------
(* pdf_tagger.py: text normalisation and the match score.                  *)

ThresholdNum == 3
ThresholdDen == 10

normalize(text) == join(split(lower(text)))

Ratio(n, d) == [num |-> n, den |-> d]

\* a mutant: the substring score is len(needle) / len(haystack)
match_score_ratio_unordered(needle_, haystack_) ==
    IF needle_ = haystack_ THEN Ratio(1, 1)
    ELSE IF IsSubstr(needle_, haystack_) \/ IsSubstr(haystack_, needle_)
    THEN (IF Len(haystack_) > 0 THEN Ratio(Len(needle_), Len(haystack_))
          ELSE Ratio(0, 1))
    ELSE LET needle_words == WordSet(needle_)
             haystack_words == WordSet(haystack_)
         IN  IF needle_words = {} THEN Ratio(0, 1)
             ELSE Ratio(Cardinality(needle_words \cap haystack_words),
                        Max(Cardinality(needle_words), Cardinality(haystack_words)))

match_score(needle_, haystack_) ==
    IF needle_ = haystack_ THEN Ratio(1, 1)
    ELSE IF IsSubstr(needle_, haystack_) \/ IsSubstr(haystack_, needle_)
    THEN LET shorter == Min(Len(needle_), Len(haystack_))
             longer == Max(Len(needle_), Len(haystack_))
         IN  IF longer > 0 THEN Ratio(shorter, longer) ELSE Ratio(0, 1)
    ELSE LET needle_words == WordSet(needle_)
             haystack_words == WordSet(haystack_)
         IN  IF needle_words = {} THEN Ratio(0, 1)
             ELSE Ratio(Cardinality(needle_words \cap haystack_words),
                        Max(Cardinality(needle_words), Cardinality(haystack_words)))

\* score > 0.3
AboveThreshold(s) == ThresholdDen * s.num > ThresholdNum * s.den

-----------------------------------------------------------------------------
(* pdf_tagger.py: content-stream instructions.                             *)

TEXT_OPS == {"Tj", "TJ", "'", "\""}

Str(bytes) == [kind |-> "String", bytes |-> bytes]
Num(n) == [kind |-> "Number", num |-> n]
Arr(items) == [kind |-> "Array", items |-> items]
Name(n) == [kind |-> "Name", name |-> n]
Dict(d) == [kind |-> "Dictionary", dict |-> d]

Inst(operands, operator) == [operands |-> operands, operator |-> operator]

IsString(item) == item.kind = "String"

extract_tj_text(inst) ==
    LET operand == inst.operands[1]
    IN  IF operand.kind = "Array"
        THEN LET strs == SelectSeq(operand.items, IsString)
             IN  Concat([i \in 1..Len(strs) |-> decode_latin1(strs[i].bytes)])
        ELSE IF operand.kind = "String" THEN decode_latin1(operand.bytes)
        ELSE <<>>

ArtifactBDC == Inst(<<Name("/Artifact"), Dict(<<>>)>>, "BDC")
EMC == Inst(<<>>, "EMC")

SpanProps(mcid, text) ==
    IF text # <<>> THEN [MCID |-> mcid, ActualText |-> text] ELSE [MCID |-> mcid]

SpanBDC(mcid, text) == Inst(<<Name("/Span"), Dict(SpanProps(mcid, text))>>, "BDC")

\* a mutant: the wrapper is emitted for an empty buffer too
flush_artifact_always(out, pending) == out \o <<ArtifactBDC>> \o pending \o <<EMC>>

RECURSIVE flush_artifact_each(_, _)
\* a mutant: every buffered instruction gets a wrapper of its own
flush_artifact_each(out, pending) ==
    IF pending = <<>> THEN out
    ELSE flush_artifact_each(out \o <<ArtifactBDC, Head(pending), EMC>>, Tail(pending))

flush_artifact(out, pending) ==
    IF pending = <<>> THEN out
    ELSE out \o <<ArtifactBDC>> \o pending \o <<EMC>>

\* the locals of _tag_content_streams at the top of a page
PageStart ==
    [new_instructions |-> <<>>, mcid_map |-> <<>>, mcid |-> 0,
     in_bt |-> FALSE, pending_non_bt |-> <<>>]

\* a mutant: the counter also advances on the other in-block instructions
tag_instruction_count_all(s, inst) ==
    LET op == inst.operator
    IN  IF op = "BT"
        THEN [s EXCEPT !.new_instructions =
                           Append(flush_artifact(@, s.pending_non_bt), inst),
                       !.pending_non_bt = <<>>,
                       !.in_bt = TRUE]
        ELSE IF op = "ET"
        THEN [s EXCEPT !.new_instructions = Append(@, inst), !.in_bt = FALSE]
        ELSE IF s.in_bt /\ op \in TEXT_OPS
        THEN LET text == extract_tj_text(inst)
             IN  [s EXCEPT !.mcid_map = Append(@, <<s.mcid, text>>),
                           !.new_instructions =
                               @ \o <<SpanBDC(s.mcid, text), inst, EMC>>,
                           !.mcid = @ + 1]
        ELSE IF s.in_bt
        THEN [s EXCEPT !.new_instructions = Append(@, inst), !.mcid = @ + 1]
        ELSE [s EXCEPT !.pending_non_bt = Append(@, inst)]

\* a mutant: the marked-content sequence is closed before the operator it marks
tag_instruction_emc_first(s, inst) ==
    LET op == inst.operator
    IN  IF op = "BT"
        THEN [s EXCEPT !.new_instructions =
                           Append(flush_artifact(@, s.pending_non_bt), inst),
                       !.pending_non_bt = <<>>,
                       !.in_bt = TRUE]
        ELSE IF op = "ET"
        THEN [s EXCEPT !.new_instructions = Append(@, inst), !.in_bt = FALSE]
        ELSE IF s.in_bt /\ op \in TEXT_OPS
        THEN LET text == extract_tj_text(inst)
             IN  [s EXCEPT !.mcid_map = Append(@, <<s.mcid, text>>),
                           !.new_instructions =
                               @ \o <<SpanBDC(s.mcid, text), EMC, inst>>,
                           !.mcid = @ + 1]
        ELSE IF s.in_bt
        THEN [s EXCEPT !.new_instructions = Append(@, inst)]
        ELSE [s EXCEPT !.pending_non_bt = Append(@, inst)]

\* a mutant: ET does not end the text block
tag_instruction_et_keeps_block(s, inst) ==
    LET op == inst.operator
    IN  IF op = "BT"
        THEN [s EXCEPT !.new_instructions =
                           Append(flush_artifact(@, s.pending_non_bt), inst),
                       !.pending_non_bt = <<>>,
                       !.in_bt = TRUE]
        ELSE IF op = "ET"
        THEN [s EXCEPT !.new_instructions = Append(@, inst)]
        ELSE IF s.in_bt /\ op \in TEXT_OPS
        THEN LET text == extract_tj_text(inst)
             IN  [s EXCEPT !.mcid_map = Append(@, <<s.mcid, text>>),
                           !.new_instructions =
                               @ \o <<SpanBDC(s.mcid, text), inst, EMC>>,
                           !.mcid = @ + 1]
        ELSE IF s.in_bt
        THEN [s EXCEPT !.new_instructions = Append(@, inst)]
        ELSE [s EXCEPT !.pending_non_bt = Append(@, inst)]

\* the body of the loop over a page's instructions
tag_instruction(s, inst) ==
    LET op == inst.operator
    IN  IF op = "BT"
        THEN [s EXCEPT !.new_instructions =
                           Append(flush_artifact(@, s.pending_non_bt), inst),
                       !.pending_non_bt = <<>>,
                       !.in_bt = TRUE]
        ELSE IF op = "ET"
        THEN [s EXCEPT !.new_instructions = Append(@, inst), !.in_bt = FALSE]
        ELSE IF s.in_bt /\ op \in TEXT_OPS
        THEN LET text == extract_tj_text(inst)
             IN  [s EXCEPT !.mcid_map = Append(@, <<s.mcid, text>>),
                           !.new_instructions =
                               @ \o <<SpanBDC(s.mcid, text), inst, EMC>>,
                           !.mcid = @ + 1]
        ELSE IF s.in_bt
        THEN [s EXCEPT !.new_instructions = Append(@, inst)]
        ELSE [s EXCEPT !.pending_non_bt = Append(@, inst)]

\* the flush after the loop
end_of_stream(s) ==
    [s EXCEPT !.new_instructions = flush_artifact(@, s.pending_non_bt)]

RECURSIVE tag_page(_, _)
\* the whole loop over one page: the locals after the last instruction
tag_page(s, insts) ==
    IF insts = <<>> THEN end_of_stream(s)
    ELSE tag_page(tag_instruction(s, Head(insts)), Tail(insts))

\* _tag_content_streams on a document given whole: one mcid_map per page
tag_content_streams(streams) ==
    [p \in 1..Len(streams) |-> tag_page(PageStart, streams[p]).mcid_map]

-----------------------------------------------------------------------------
(* Inputs of the step-by-step rewriter.                                    *)

BT == Inst(<<>>, "BT")
ET == Inst(<<>>, "ET")
\* (a) Tj
Tj_a == Inst(<<Str(<<97>>)>>, "Tj")
\* [(A) -120 (b)] TJ
TJ_Ab == Inst(<<Arr(<<Str(<<65>>), Num(-120), Str(<<98>>)>>)>>, "TJ")
\* aw ac (string) ": the first operand is a number
DQ_b == Inst(<<Num(0), Num(0), Str(<<98>>)>>, "\"")
\* (c) ': move to the next line and show
Q_c == Inst(<<Str(<<99>>)>>, "'")
\* 0 0 1 1 re
re == Inst(<<Num(0), Num(0), Num(1), Num(1)>>, "re")
\* f: fill the path
fill == Inst(<<>>, "f")

StreamInstructions == {BT, ET, Tj_a, TJ_Ab, DQ_b, Q_c, re}

\* /P <</MCID 0>> BDC: a marked-content sequence the input already has
P_BDC == Inst(<<Name("/P"), Dict([MCID |-> 0])>>, "BDC")
\* /Tag BMC
BMC == Inst(<<Name("/Tag")>>, "BMC")

\* the instructions of a partially tagged stream
TaggedStreamInstructions == {BT, ET, Tj_a, re, P_BDC, BMC, EMC}

RECURSIVE TotalLen(_)
TotalLen(streams) ==
    IF streams = <<>> THEN 0 ELSE Len(Head(streams)) + TotalLen(Tail(streams))

-----------------------------------------------------------------------------
(* models.py: the semantic tree.                                           *)

DOCUMENT == "Document"
SECTION == "Sect"
HEADING1 == "H1"
HEADING2 == "H2"
HEADING3 == "H3"
HEADING4 == "H4"
PARAGRAPH == "P"
LIST == "L"
LIST_ITEM == "LI"
FORMULA == "Formula"
CODE == "Code"
FIGURE == "Figure"
LINK == "Link"

\* HEADING_TAGS: sectioning depth -> heading tag
HEADING_TAGS == [d \in 0..3 |-> <<HEADING1, HEADING2, HEADING3, HEADING4>>[d + 1]]

DocumentNode(tag, text) == [tag |-> tag, text |-> text, children |-> <<>>]

\* node.children.append(child)
AppendChild(node, child) == [node EXCEPT !.children = Append(@, child)]

\* d[key] = value
SetKey(d, key, value) ==
    [x \in DOMAIN d \cup {key} |-> IF x = key THEN value ELSE d[x]]

\* class Tag(Enum): the members by name, each with its value.  A node's tag
\* is held as the value of its member.
TagEnum ==
    [DOCUMENT |-> "Document", SECTION |-> "Sect", HEADING1 |-> "H1",
     HEADING2 |-> "H2", HEADING3 |-> "H3", HEADING4 |-> "H4", PARAGRAPH |-> "P",
     LIST |-> "L", LIST_ITEM |-> "LI", FORMULA |-> "Formula", CODE |-> "Code",
     FIGURE |-> "Figure", LINK |-> "Link"]

\* the name of a member of Tag
MemberName(tag) == CHOOSE n \in DOMAIN TagEnum : TagEnum[n] = tag

\* self.tag.value
tag_value(tag) == TagEnum[MemberName(tag)]

\* Tag(value): the member with that value
TagOf(value) == TagEnum[CHOOSE n \in DOMAIN TagEnum : TagEnum[n] = value]

RECURSIVE to_dict(_)
\* DocumentNode.to_dict: empty text and empty children are left out
to_dict(node) ==
    LET d0 == [tag |-> tag_value(node.tag)]
        d1 == IF node.text # <<>> THEN SetKey(d0, "text", node.text) ELSE d0
    IN  IF node.children # <<>>
        THEN SetKey(d1, "children",
                    [i \in 1..Len(node.children) |-> to_dict(node.children[i])])
        ELSE d1

RECURSIVE from_dict_no_default(_)
\* a mutant: a dictionary without "text" is read as a node whose text is None
from_dict_no_default(d) ==
    [tag |-> TagOf(d.tag),
     text |-> IF "text" \in DOMAIN d THEN d.text ELSE <<"None">>,
     children |-> IF "children" \in DOMAIN d
                  THEN [i \in 1..Len(d.children) |-> from_dict_no_default(d.children[i])]
                  ELSE <<>>]

RECURSIVE from_dict(_)
\* DocumentNode.from_dict: d.get("text", "") and d.get("children", [])
from_dict(d) ==
    [tag |-> TagOf(d.tag),
     text |-> IF "text" \in DOMAIN d THEN d.text ELSE <<>>,
     children |-> IF "children" \in DOMAIN d
                  THEN [i \in 1..Len(d.children) |-> from_dict(d.children[i])]
                  ELSE <<>>]

-----------------------------------------------------------------------------
(* latex_parser.py.  A pylatexenc node carries what the library reports    *)
(* for it: a macro its name, its argument list and its plain text, an      *)
(* argument or a chars node its text, a math or environment node its       *)
(* verbatim source, an environment or group its node list.                 *)

SECTION_MACROS ==
    [n \in {"chapter", "section", "subsection", "subsubsection", "paragraph"} |->
        CASE n = "chapter" -> 0
          [] n = "section" -> 0
          [] n = "subsection" -> 1
          [] n = "subsubsection" -> 2
          [] n = "paragraph" -> 3]

MATH_ENVIRONMENTS ==
    {"equation", "equation*", "align", "align*", "gather", "gather*",
     "multline", "multline*", "flalign", "flalign*", "displaymath"}
CODE_ENVIRONMENTS == {"verbatim", "lstlisting", "minted"}
LIST_ENVIRONMENTS == {"itemize", "enumerate", "description"}

\* an absent (None) entry of a macro's argument list
NoArg == [type |-> "none", text |-> <<>>]
\* a {...} argument and a * or [...] argument, with their plain text
GroupArg(text) == [type |-> "group", text |-> text]
CharsArg(text) == [type |-> "chars", text |-> text]

LatexMacroNode(macroname, argnlist, text) ==
    [type |-> "macro", macroname |-> macroname, argnlist |-> argnlist,
     text |-> text, nodelist |-> <<>>]
LatexMathNode(verbatim) ==
    [type |-> "math", macroname |-> "", argnlist |-> <<>>, text |-> verbatim,
     nodelist |-> <<>>]
LatexEnvironmentNode(environmentname, verbatim, nodelist) ==
    [type |-> "environment", macroname |-> environmentname, argnlist |-> <<>>,
     text |-> verbatim, nodelist |-> nodelist]
LatexCharsNode(chars) ==
    [type |-> "chars", macroname |-> "", argnlist |-> <<>>, text |-> chars,
     nodelist |-> <<>>]
LatexGroupNode(nodelist) ==
    [type |-> "group", macroname |-> "", argnlist |-> <<>>, text |-> <<>>,
     nodelist |-> nodelist]

RECURSIVE lstrip(_)
lstrip(text) ==
    IF text # <<>> /\ IsSpace(Head(text)) THEN lstrip(Tail(text)) ELSE text

RECURSIVE rstrip(_)
rstrip(text) ==
    IF text # <<>> /\ IsSpace(text[Len(text)])
    THEN rstrip(SubSeq(text, 1, Len(text) - 1))
    ELSE text

\* str.strip()
strip(text) == rstrip(lstrip(text))

IsArg(arg) == arg.type # "none"
IsGroupArg(arg) == arg.type = "group"

\* plain text of the first non-None argument
macro_arg_text(node) ==
    LET args == SelectSeq(node.argnlist, IsArg)
    IN  IF args = <<>> THEN <<>> ELSE args[1].text

\* plain text of the first brace-group argument, else of the first argument
macro_brace_text(node) ==
    LET groups == SelectSeq(node.argnlist, IsGroupArg)
    IN  IF groups = <<>> THEN macro_arg_text(node) ELSE groups[1].text

RECURSIVE find_macro_text(_, _)
\* the text of the first \macro_name in nodes, looking into groups
find_macro_text(macro_name, nodes) ==
    IF nodes = <<>> THEN <<>>
    ELSE LET node == Head(nodes)
         IN  IF node.type = "macro" /\ node.macroname = macro_name
             THEN macro_arg_text(node)
             ELSE LET result == IF node.type = "group"
                                THEN find_macro_text(macro_name, node.nodelist)
                                ELSE <<>>
                  IN  IF result # <<>> THEN result
                      ELSE find_macro_text(macro_name, Tail(nodes))

\* a mutant: every text flush starts a Paragraph of its own
append_text_new_paragraph(parent, text) ==
    AppendChild(parent, DocumentNode(PARAGRAPH, text))

append_text(parent, text) ==
    IF parent.children # <<>>
       /\ parent.children[Len(parent.children)].tag = PARAGRAPH
    THEN [parent EXCEPT !.children[Len(parent.children)].text = @ \o <<" ">> \o text]
    ELSE AppendChild(parent, DocumentNode(PARAGRAPH, text))

\* a mutant: text that follows a section goes under that section
handle_text_under_section(node, parent) ==
    LET text == strip(node.text)
        last == Len(parent.children)
    IN  IF text = <<>> THEN parent
        ELSE IF last > 0 /\ parent.children[last].tag = SECTION
        THEN [parent EXCEPT !.children[last] = append_text(@, text)]
        ELSE append_text(parent, text)

handle_text(node, parent) ==
    LET text == strip(node.text)
    IN  IF text # <<>> THEN append_text(parent, text) ELSE parent

handle_math(node, parent) ==
    AppendChild(parent, DocumentNode(FORMULA, strip(node.text)))

\* Path.suffix is non-empty
HasSuffix(filename) == \E i \in 2..Len(filename) : filename[i] = "."

\* base_dir / filename, with ".tex" appended when it has no suffix
include_path(filename) ==
    IF HasSuffix(filename) THEN filename ELSE filename \o <<".", "t", "e", "x">>

RECURSIVE walk(_, _, _)
RECURSIVE handle_macro(_, _, _)
RECURSIVE handle_environment(_, _, _)
RECURSIVE walk_list_items(_, _, _)
RECURSIVE parse_file(_, _, _)

\* fs: the readable files, path -> node list
parse_file(tex_path, parent, fs) == walk(fs[tex_path], parent, fs)

walk(nodes, parent, fs) ==
    IF nodes = <<>> THEN parent
    ELSE LET node == Head(nodes)
             after ==
                 CASE node.type = "macro" -> handle_macro(node, parent, fs)
                   [] node.type = "math" -> handle_math(node, parent)
                   [] node.type = "environment" -> handle_environment(node, parent, fs)
                   [] node.type = "chars" -> handle_text(node, parent)
                   [] node.type = "group" -> walk(node.nodelist, parent, fs)
                   [] OTHER -> parent
         IN  walk(Tail(nodes), after, fs)

handle_macro(node, parent, fs) ==
    LET name == node.macroname
    IN  IF name \in DOMAIN SECTION_MACROS
        THEN LET depth == SECTION_MACROS[name]
                 heading_text == strip(macro_brace_text(node))
                 section == AppendChild(DocumentNode(SECTION, <<>>),
                                        DocumentNode(HEADING_TAGS[depth], heading_text))
             IN  AppendChild(parent, section)
        ELSE IF name \in {"input", "include"}
        THEN LET filename == macro_arg_text(node)
             IN  IF filename # <<>> /\ include_path(filename) \in DOMAIN fs
                 THEN parse_file(include_path(filename), parent, fs)
                 ELSE parent
        ELSE IF name = "href"
        THEN LET args == node.argnlist
                 url == IF Len(args) > 0 /\ IsArg(args[1]) THEN strip(args[1].text)
                        ELSE <<>>
                 text == IF Len(args) > 1 /\ IsArg(args[2]) THEN strip(args[2].text)
                         ELSE url
             IN  IF text # <<>> \/ url # <<>>
                 THEN AppendChild(parent,
                                  DocumentNode(LINK, IF text # <<>> THEN text ELSE url))
                 ELSE parent
        ELSE IF name = "url"
        THEN LET url == strip(macro_arg_text(node))
             IN  IF url # <<>> THEN AppendChild(parent, DocumentNode(LINK, url))
                 ELSE parent
        ELSE LET text == node.text
             IN  IF strip(text) # <<>> THEN append_text(parent, text) ELSE parent

\* a mutant: the items of a list environment are appended to the parent
handle_environment_flat_list(node, parent, fs) ==
    LET name == node.macroname
    IN  IF name \in MATH_ENVIRONMENTS
        THEN AppendChild(parent, DocumentNode(FORMULA, strip(node.text)))
        ELSE IF name \in CODE_ENVIRONMENTS
        THEN AppendChild(parent, DocumentNode(CODE, strip(node.text)))
        ELSE IF name \in LIST_ENVIRONMENTS
        THEN [parent EXCEPT !.children =
                 @ \o walk_list_items(node.nodelist, DocumentNode(LIST, <<>>), fs)
                          .children]
        ELSE IF name = "figure"
        THEN LET found == find_macro_text("caption", node.nodelist)
                 img == find_macro_text("includegraphics", node.nodelist)
                 caption == IF found # <<>> THEN found
                            ELSE IF img # <<>>
                            THEN <<"F", "i", "g", "u", "r", "e", ":", " ">> \o img
                            ELSE <<"F", "i", "g", "u", "r", "e">>
             IN  AppendChild(parent, DocumentNode(FIGURE, caption))
        ELSE walk(node.nodelist, parent, fs)

handle_environment(node, parent, fs) ==
    LET name == node.macroname
    IN  IF name \in MATH_ENVIRONMENTS
        THEN AppendChild(parent, DocumentNode(FORMULA, strip(node.text)))
        ELSE IF name \in CODE_ENVIRONMENTS
        THEN AppendChild(parent, DocumentNode(CODE, strip(node.text)))
        ELSE IF name \in LIST_ENVIRONMENTS
        THEN AppendChild(parent,
                         walk_list_items(node.nodelist, DocumentNode(LIST, <<>>), fs))
        ELSE IF name = "figure"
        THEN LET found == find_macro_text("caption", node.nodelist)
                 img == find_macro_text("includegraphics", node.nodelist)
                 caption == IF found # <<>> THEN found
                            ELSE IF img # <<>>
                            THEN <<"F", "i", "g", "u", "r", "e", ":", " ">> \o img
                            ELSE <<"F", "i", "g", "u", "r", "e">>
             IN  AppendChild(parent, DocumentNode(FIGURE, caption))
        ELSE walk(node.nodelist, parent, fs)

\* current_item is the last child of list_node once an \item has been seen
walk_list_items(nodes, list_node, fs) ==
    IF nodes = <<>> THEN list_node
    ELSE LET node == Head(nodes)
             after ==
                 IF node.type = "macro" /\ node.macroname = "item"
                 THEN LET label == macro_arg_text(node)
                          current_item == DocumentNode(LIST_ITEM, <<>>)
                      IN  AppendChild(list_node,
                                      IF label # <<>>
                                      THEN append_text(current_item, label)
                                      ELSE current_item)
                 ELSE IF list_node.children # <<>>
                 THEN [list_node EXCEPT !.children[Len(list_node.children)] =
                                            walk(<<node>>, @, fs)]
                 ELSE list_node
         IN  walk_list_items(Tail(nodes), after, fs)

-----------------------------------------------------------------------------
(* latex_parser.py: heading normalisation.                                 *)

HEADING_TAGS_ORDERED == <<HEADING1, HEADING2, HEADING3, HEADING4>>

IsHeadingTag(tag) == \E i \in 1..Len(HEADING_TAGS_ORDERED) : HEADING_TAGS_ORDERED[i] = tag

\* _HEADING_TAGS_ORDERED.index(tag), counted from 1
HeadingIndex(tag) == CHOOSE i \in 1..Len(HEADING_TAGS_ORDERED) : HEADING_TAGS_ORDERED[i] = tag

IsEmptySection(child) ==
    /\ child.tag = SECTION
    /\ Len(child.children) = 1
    /\ IsHeadingTag(child.children[1].tag)
    /\ strip(child.children[1].text) = <<>>

IsKept(child) == ~IsEmptySection(child)

RECURSIVE prune_empty_headings(_)
prune_empty_headings(node) ==
    LET kept == SelectSeq(node.children, IsKept)
    IN  [node EXCEPT !.children = [i \in 1..Len(kept) |-> prune_empty_headings(kept[i])]]

RECURSIVE collect_heading_tags(_)
collect_heading_tags(node) ==
    (IF IsHeadingTag(node.tag) THEN {node.tag} ELSE {})
        \cup UNION {collect_heading_tags(node.children[i]) : i \in 1..Len(node.children)}

RECURSIVE apply_heading_remap(_, _)
apply_heading_remap(node, remap) ==
    [node EXCEPT !.tag = IF @ \in DOMAIN remap THEN remap[@] ELSE @,
                 !.children = [i \in 1..Len(@) |-> apply_heading_remap(@[i], remap)]]

\* sorted(used, key=_HEADING_TAGS_ORDERED.index)
SortedUsed(used) ==
    LET IsUsed(tag) == tag \in used
    IN  SelectSeq(HEADING_TAGS_ORDERED, IsUsed)

\* a mutant: the lowest level used becomes H1 and the others keep their distance
heading_remap_shifted(used) ==
    LET sorted_used == SortedUsed(used)
        first == HeadingIndex(sorted_used[1])
    IN  [old \in used |-> HEADING_TAGS_ORDERED[HeadingIndex(old) - first + 1]]

\* remap: the i-th level used, ascending, becomes the i-th heading tag
heading_remap(used) ==
    LET sorted_used == SortedUsed(used)
    IN  [old \in used |->
            HEADING_TAGS_ORDERED[CHOOSE i \in 1..Len(sorted_used) : sorted_used[i] = old]]

normalize_headings(root_) ==
    LET pruned == prune_empty_headings(root_)
        used == collect_heading_tags(pruned)
    IN  IF used = {} THEN pruned
        ELSE LET remap == heading_remap(used)
             IN  IF \E k \in used : k # remap[k]
                 THEN apply_heading_remap(pruned, remap)
                 ELSE pruned

-----------------------------------------------------------------------------
(* pdf_tagger.py: PDF dictionaries.  A dictionary is a function from its   *)
(* keys; a structure element is referred to by its handle in the arena.    *)

\* the handle of the structure tree root
StructRoot == 0

\* pdf.make_indirect(elem): an indirect reference to a structure element
Ref(h) == [Type |-> "/StructElem", elem |-> h]
Array(items) == [kind |-> "Array", items |-> items]
IsArray(k) == "items" \in DOMAIN k

PDF_TAG ==
    [t \in {DOCUMENT, SECTION, HEADING1, HEADING2, HEADING3, HEADING4, PARAGRAPH,
            LIST, LIST_ITEM, FORMULA, CODE, FIGURE, LINK} |->
        CASE t = DOCUMENT -> "Document"
          [] t = SECTION -> "Sect"
          [] t = HEADING1 -> "H1"
          [] t = HEADING2 -> "H2"
          [] t = HEADING3 -> "H3"
          [] t = HEADING4 -> "H4"
          [] t = PARAGRAPH -> "P"
          [] t = LIST -> "L"
          [] t = LIST_ITEM -> "LI"
          [] t = FORMULA -> "Formula"
          [] t = CODE -> "Code"
          [] t = FIGURE -> "Figure"
          [] t = LINK -> "Link"]

ALT_TAGS == {FORMULA, CODE, FIGURE}

\* a mutant: the text of every node is attached as /ActualText
NewElem_actual_text_only(node, parent) ==
    LET tag_name == IF node.tag \in DOMAIN PDF_TAG THEN PDF_TAG[node.tag] ELSE "Span"
        elem == [Type |-> "/StructElem", S |-> tag_name, P |-> parent]
    IN  IF node.text # <<>> THEN SetKey(elem, "ActualText", node.text) ELSE elem

\* the StructElem dictionary _build_element starts from
NewElem(node, parent) ==
    LET tag_name == IF node.tag \in DOMAIN PDF_TAG THEN PDF_TAG[node.tag] ELSE "Span"
        elem == [Type |-> "/StructElem", S |-> tag_name, P |-> parent]
    IN  IF node.text # <<>>
        THEN (IF node.tag \in ALT_TAGS
              THEN SetKey(elem, "Alt", node.text)
              ELSE SetKey(elem, "ActualText", node.text))
        ELSE elem

RECURSIVE build_element_no_lbody(_, _, _)
RECURSIVE build_children_no_lbody(_, _, _, _)

\* a mutant: list items are built like every other interior node
build_element_no_lbody(node, parent, st) ==
    LET h == Len(st.elems) + 1
        st1 == [st EXCEPT !.elems = Append(@, NewElem(node, parent))]
    IN  IF node.children # <<>>
        THEN LET r == build_children_no_lbody(node.children, h, st1, <<>>)
             IN  [elems |-> [r.elems EXCEPT ![h] = SetKey(@, "K", Array(r.kids))],
                  leaf_elems |-> r.leaf_elems,
                  elem |-> h]
        ELSE [elems |-> st1.elems,
              leaf_elems |-> Append(st1.leaf_elems, <<h, node>>),
              elem |-> h]

build_children_no_lbody(children, parent, st, kids) ==
    IF children = <<>>
    THEN [elems |-> st.elems, leaf_elems |-> st.leaf_elems, kids |-> kids]
    ELSE LET r == build_element_no_lbody(Head(children), parent, st)
         IN  build_children_no_lbody(Tail(children), parent,
                                     [elems |-> r.elems, leaf_elems |-> r.leaf_elems],
                                     Append(kids, Ref(r.elem)))

RECURSIVE build_element(_, _, _)
RECURSIVE build_children(_, _, _, _)

\* st = [elems, leaf_elems]; the result adds elem, the handle of the new element
build_element(node, parent, st) ==
    LET h == Len(st.elems) + 1
        st1 == [st EXCEPT !.elems = Append(@, NewElem(node, parent))]
    IN  IF node.children # <<>>
        THEN IF node.tag = LIST_ITEM
             THEN LET lh == h + 1
                      lbody == [Type |-> "/StructElem", S |-> "LBody", P |-> h]
                      st2 == [st1 EXCEPT !.elems = Append(@, lbody)]
                      r == build_children(node.children, lh, st2, <<>>)
                  IN  [elems |-> [r.elems EXCEPT
                                     ![lh] = SetKey(@, "K", Array(r.kids)),
                                     ![h] = SetKey(@, "K", Array(<<Ref(lh)>>))],
                       leaf_elems |-> r.leaf_elems,
                       elem |-> h]
             ELSE LET r == build_children(node.children, h, st1, <<>>)
                  IN  [elems |-> [r.elems EXCEPT ![h] = SetKey(@, "K", Array(r.kids))],
                       leaf_elems |-> r.leaf_elems,
                       elem |-> h]
        ELSE [elems |-> st1.elems,
              leaf_elems |-> Append(st1.leaf_elems, <<h, node>>),
              elem |-> h]

\* for child in node.children: build the child, append a reference to kids
build_children(children, parent, st, kids) ==
    IF children = <<>>
    THEN [elems |-> st.elems, leaf_elems |-> st.leaf_elems, kids |-> kids]
    ELSE LET r == build_element(Head(children), parent, st)
         IN  build_children(Tail(children), parent,
                            [elems |-> r.elems, leaf_elems |-> r.leaf_elems],
                            Append(kids, Ref(r.elem)))

-----------------------------------------------------------------------------
(* pdf_tagger.py: the linker.                                              *)

MCR(page_idx, mcid) == [Type |-> "/MCR", Pg |-> page_idx, MCID |-> mcid]

RECURSIVE FlattenMcids(_, _)
\* all_mcids: (page_idx, mcid, text) for every page in order, from page p on
FlattenMcids(page_mcid_maps_, p) ==
    IF p > Len(page_mcid_maps_) THEN <<>>
    ELSE [i \in 1..Len(page_mcid_maps_[p]) |->
             <<p - 1, page_mcid_maps_[p][i][1], page_mcid_maps_[p][i][2]>>]
         \o FlattenMcids(page_mcid_maps_, p + 1)

\* a mutant: a score equal to the threshold matches too
claims_mcid_at_threshold(node_norm, mcid_norm) ==
    LET s == match_score(node_norm, mcid_norm)
    IN  ThresholdDen * s.num >= ThresholdNum * s.den

\* score = _match_score(node_norm, mcid_norm); score > 0.3
claims_mcid(node_norm, mcid_norm) ==
    AboveThreshold(match_score(node_norm, mcid_norm))

RECURSIVE match_mcids_keep_used(_, _, _, _)
\* a mutant: an MCID that is already claimed is not skipped
match_mcids_keep_used(mcids, node_norm, h, st) ==
    IF mcids = <<>> THEN st
    ELSE LET page_idx == Head(mcids)[1]
             mcid == Head(mcids)[2]
             mcid_norm == normalize(Head(mcids)[3])
             after ==
                 IF mcid_norm = <<>> THEN st
                 ELSE IF claims_mcid(node_norm, mcid_norm)
                 THEN [matched_mcrs |-> Append(st.matched_mcrs, MCR(page_idx, mcid)),
                       used_mcids |-> st.used_mcids \cup {<<page_idx, mcid>>},
                       ownership |-> SetKey(st.ownership, <<page_idx, mcid>>, h)]
                 ELSE st
         IN  match_mcids_keep_used(Tail(mcids), node_norm, h, after)

RECURSIVE match_mcids_newest_first(_, _, _, _)
\* a mutant: a matched MCR is put in front of the ones matched before it
match_mcids_newest_first(mcids, node_norm, h, st) ==
    IF mcids = <<>> THEN st
    ELSE LET page_idx == Head(mcids)[1]
             mcid == Head(mcids)[2]
             mcid_norm == normalize(Head(mcids)[3])
             after ==
                 IF <<page_idx, mcid>> \in st.used_mcids THEN st
                 ELSE IF mcid_norm = <<>> THEN st
                 ELSE IF claims_mcid(node_norm, mcid_norm)
                 THEN [matched_mcrs |-> <<MCR(page_idx, mcid)>> \o st.matched_mcrs,
                       used_mcids |-> st.used_mcids \cup {<<page_idx, mcid>>},
                       ownership |-> SetKey(st.ownership, <<page_idx, mcid>>, h)]
                 ELSE st
         IN  match_mcids_newest_first(Tail(mcids), node_norm, h, after)

RECURSIVE match_mcids(_, _, _, _)
\* the inner loop: st = [matched_mcrs, used_mcids, ownership]
match_mcids(mcids, node_norm, h, st) ==
    IF mcids = <<>> THEN st
    ELSE LET page_idx == Head(mcids)[1]
             mcid == Head(mcids)[2]
             mcid_norm == normalize(Head(mcids)[3])
             after ==
                 IF <<page_idx, mcid>> \in st.used_mcids THEN st
                 ELSE IF mcid_norm = <<>> THEN st
                 ELSE IF claims_mcid(node_norm, mcid_norm)
                 THEN [matched_mcrs |-> Append(st.matched_mcrs, MCR(page_idx, mcid)),
                       used_mcids |-> st.used_mcids \cup {<<page_idx, mcid>>},
                       ownership |-> SetKey(st.ownership, <<page_idx, mcid>>, h)]
                 ELSE st
         IN  match_mcids(Tail(mcids), node_norm, h, after)

RECURSIVE link_leaves_always_array(_, _, _)
\* a mutant: a single matched MCR is stored as an array of one
link_leaves_always_array(leaves, all_mcids, st) ==
    IF leaves = <<>> THEN st
    ELSE LET h == Head(leaves)[1]
             node == Head(leaves)[2]
             node_norm == normalize(node.text)
             after ==
                 IF node.text = <<>> THEN st
                 ELSE IF node_norm = <<>> THEN st
                 ELSE LET m == match_mcids(all_mcids, node_norm, h,
                                           [matched_mcrs |-> <<>>,
                                            used_mcids |-> st.used_mcids,
                                            ownership |-> st.ownership])
                      IN  [elems |-> IF m.matched_mcrs # <<>>
                                     THEN [st.elems EXCEPT
                                              ![h] = SetKey(@, "K", Array(m.matched_mcrs))]
                                     ELSE st.elems,
                           used_mcids |-> m.used_mcids,
                           ownership |-> m.ownership]
         IN  link_leaves_always_array(Tail(leaves), all_mcids, after)

RECURSIVE link_leaves(_, _, _)
\* the outer loop: st = [elems, used_mcids, ownership]
link_leaves(leaves, all_mcids, st) ==
    IF leaves = <<>> THEN st
    ELSE LET h == Head(leaves)[1]
             node == Head(leaves)[2]
             node_norm == normalize(node.text)
             after ==
                 IF node.text = <<>> THEN st
                 ELSE IF node_norm = <<>> THEN st
                 ELSE LET m == match_mcids(all_mcids, node_norm, h,
                                           [matched_mcrs |-> <<>>,
                                            used_mcids |-> st.used_mcids,
                                            ownership |-> st.ownership])
                          k == IF Len(m.matched_mcrs) = 1 THEN m.matched_mcrs[1]
                               ELSE Array(m.matched_mcrs)
                      IN  [elems |-> IF m.matched_mcrs # <<>>
                                     THEN [st.elems EXCEPT ![h] = SetKey(@, "K", k)]
                                     ELSE st.elems,
                           used_mcids |-> m.used_mcids,
                           ownership |-> m.ownership]
         IN  link_leaves(Tail(leaves), all_mcids, after)

\* the result is [elems, ownership]
link_structure_to_content(leaf_elems_, page_mcid_maps_, elems_) ==
    LET all_mcids == FlattenMcids(page_mcid_maps_, 1)
    IN  IF all_mcids = <<>> THEN [elems |-> elems_, ownership |-> <<>>]
        ELSE LET r == link_leaves(leaf_elems_, all_mcids,
                                  [elems |-> elems_, used_mcids |-> {},
                                   ownership |-> <<>>])
             IN  [elems |-> r.elems, ownership |-> r.ownership]

-----------------------------------------------------------------------------
(* pdf_tagger.py: the annotation linker.                                   *)

LinkText == <<"L", "i", "n", "k">>

OBJR(page_idx, annot_idx) ==
    [Type |-> "/OBJR", Pg |-> page_idx, Obj |-> <<page_idx, annot_idx>>]

IsLinkLeaf(leaf) == leaf[2].tag = LINK

\* a mutant: the description is always the literal
alt_text_of_literal(annot) == LinkText

\* uri or (str(dest) if dest else "Link")
alt_text_of(annot) ==
    LET uri == IF "A" \in DOMAIN annot /\ "URI" \in DOMAIN annot.A
               THEN annot.A.URI ELSE <<>>
        dest == IF "Dest" \in DOMAIN annot THEN annot.Dest ELSE <<>>
    IN  IF uri # <<>> THEN uri ELSE IF dest # <<>> THEN dest ELSE LinkText

\* the children of the document element gain a reference to a new element
append_to_document(doc_elem, ref) ==
    IF "K" \in DOMAIN doc_elem
    THEN (IF IsArray(doc_elem.K)
          THEN SetKey(doc_elem, "K", Array(Append(doc_elem.K.items, ref)))
          ELSE SetKey(doc_elem, "K", Array(<<doc_elem.K, ref>>)))
    ELSE SetKey(doc_elem, "K", ref)

\* an OBJR is added to the /K of the matched element
add_objr(matched_elem, objr) ==
    IF "K" \notin DOMAIN matched_elem THEN SetKey(matched_elem, "K", objr)
    ELSE IF IsArray(matched_elem.K)
    THEN SetKey(matched_elem, "K", Array(Append(matched_elem.K.items, objr)))
    ELSE SetKey(matched_elem, "K", Array(<<matched_elem.K, objr>>))

\* the /P the annotation linker gives a Link element it creates
synth_link_parent(doc_handle) == StructRoot

\* a mutant: a consumed Link leaf stays the next one to consume
link_annotation_reuse_leaf(p, a, st, link_elems, doc_handle) ==
    LET page_idx == p - 1
        annot == st.pages[p].Annots[a]
        alt_text == alt_text_of(annot)
        annot1 == IF "Contents" \notin DOMAIN annot
                  THEN SetKey(annot, "Contents", alt_text) ELSE annot
        annot2 == SetKey(annot1, "StructParent", st.next_key)
        consume == st.link_idx < Len(link_elems)
        matched == IF consume THEN link_elems[st.link_idx + 1][1]
                   ELSE Len(st.elems) + 1
        elems1 ==
            IF consume THEN st.elems
            ELSE LET created == [Type |-> "/StructElem", S |-> "Link",
                                 P |-> synth_link_parent(doc_handle),
                                 Alt |-> alt_text]
                 IN  [Append(st.elems, created) EXCEPT
                         ![doc_handle] = append_to_document(@, Ref(matched))]
        elems2 == [elems1 EXCEPT ![matched] = add_objr(@, OBJR(page_idx, a - 1))]
    IN  [elems |-> elems2,
         pages |-> [st.pages EXCEPT ![p].Annots[a] = annot2],
         next_key |-> st.next_key + 1,
         link_idx |-> st.link_idx,
         annot_parent_entries |->
             Append(st.annot_parent_entries, <<st.next_key, matched>>)]

\* the body of the loop over a page's annotations, for one link annotation;
\* st = [elems, pages, next_key, link_idx, annot_parent_entries]
link_annotation(p, a, st, link_elems, doc_handle) ==
    LET page_idx == p - 1
        annot == st.pages[p].Annots[a]
        alt_text == alt_text_of(annot)
        annot1 == IF "Contents" \notin DOMAIN annot
                  THEN SetKey(annot, "Contents", alt_text) ELSE annot
        annot2 == SetKey(annot1, "StructParent", st.next_key)
        consume == st.link_idx < Len(link_elems)
        matched == IF consume THEN link_elems[st.link_idx + 1][1]
                   ELSE Len(st.elems) + 1
        elems1 ==
            IF consume THEN st.elems
            ELSE LET created == [Type |-> "/StructElem", S |-> "Link",
                                 P |-> synth_link_parent(doc_handle),
                                 Alt |-> alt_text]
                 IN  [Append(st.elems, created) EXCEPT
                         ![doc_handle] = append_to_document(@, Ref(matched))]
        elems2 == [elems1 EXCEPT ![matched] = add_objr(@, OBJR(page_idx, a - 1))]
    IN  [elems |-> elems2,
         pages |-> [st.pages EXCEPT ![p].Annots[a] = annot2],
         next_key |-> st.next_key + 1,
         link_idx |-> IF consume THEN st.link_idx + 1 ELSE st.link_idx,
         annot_parent_entries |->
             Append(st.annot_parent_entries, <<st.next_key, matched>>)]

RECURSIVE link_page_annotations(_, _, _, _, _)
\* for annot_ref in annots, from annotation a of page p on
link_page_annotations(p, a, st, link_elems, doc_handle) ==
    IF a > Len(st.pages[p].Annots) THEN st
    ELSE LET annot == st.pages[p].Annots[a]
             subtype == IF "Subtype" \in DOMAIN annot THEN annot.Subtype ELSE ""
             after == IF subtype # "/Link" THEN st
                      ELSE link_annotation(p, a, st, link_elems, doc_handle)
         IN  link_page_annotations(p, a + 1, after, link_elems, doc_handle)

RECURSIVE link_pages(_, _, _, _)
\* for page_idx, page in enumerate(pdf.pages), from page p on
link_pages(p, st, link_elems, doc_handle) ==
    IF p > Len(st.pages) THEN st
    ELSE LET annots == IF "Annots" \in DOMAIN st.pages[p]
                       THEN st.pages[p].Annots ELSE <<>>
             after == IF annots = <<>> THEN st
                      ELSE link_page_annotations(p, 1, st, link_elems, doc_handle)
         IN  link_pages(p + 1, after, link_elems, doc_handle)

\* a mutant: the annotation keys start at 0
link_annotations_keys_from_zero(pages_, leaf_elems_, elems_, struct_root_) ==
    LET link_elems == SelectSeq(leaf_elems_, IsLinkLeaf)
        r == link_pages(1, [elems |-> elems_, pages |-> pages_,
                            next_key |-> 0, link_idx |-> 0,
                            annot_parent_entries |-> <<>>],
                        link_elems, struct_root_.K.elem)
    IN  [elems |-> r.elems, pages |-> r.pages,
         annot_parent_entries |-> r.annot_parent_entries]

\* the result is [elems, pages, annot_parent_entries]
link_annotations_to_structure(pages_, leaf_elems_, elems_, struct_root_) ==
    LET link_elems == SelectSeq(leaf_elems_, IsLinkLeaf)
        r == link_pages(1, [elems |-> elems_, pages |-> pages_,
                            next_key |-> Len(pages_), link_idx |-> 0,
                            annot_parent_entries |-> <<>>],
                        link_elems, struct_root_.K.elem)
    IN  [elems |-> r.elems, pages |-> r.pages,
         annot_parent_entries |-> r.annot_parent_entries]

-----------------------------------------------------------------------------
(* pdf_tagger.py: the parent tree.                                         *)

\* a mutant: an MCID without an owner gets no slot in the page's array
page_parents_owned_only(page_idx, mcid_map, ownership_) ==
    LET IsOwned(entry) == <<page_idx, entry[1]>> \in DOMAIN ownership_
        owned == SelectSeq(mcid_map, IsOwned)
    IN  [i \in 1..Len(owned) |-> Ref(ownership_[<<page_idx, owned[i][1]>>])]

\* the reference a parent array holds to the structure tree root
RootRef == [Type |-> "/StructTreeRoot", elem |-> StructRoot]

\* parents: ownership.get((page_idx, mcid), struct_root) for each MCID of the page
page_parents(page_idx, mcid_map, ownership_) ==
    [i \in 1..Len(mcid_map) |->
        IF <<page_idx, mcid_map[i][1]>> \in DOMAIN ownership_
        THEN Ref(ownership_[<<page_idx, mcid_map[i][1]>>])
        ELSE RootRef]

RECURSIVE page_nums(_, _, _)
\* the page entries of /Nums, from page p on, each a pair of key and array
page_nums(page_mcid_maps_, ownership_, p) ==
    IF p > Len(page_mcid_maps_) THEN <<>>
    ELSE (IF page_mcid_maps_[p] = <<>> THEN <<>>
          ELSE << <<p - 1,
                     Array(page_parents(p - 1, page_mcid_maps_[p], ownership_))>> >>)
         \o page_nums(page_mcid_maps_, ownership_, p + 1)

RECURSIVE annot_nums(_)
\* the annotation entries of /Nums, each a pair of key and element
annot_nums(entries) ==
    IF entries = <<>> THEN <<>>
    ELSE << <<Head(entries)[1], Ref(Head(entries)[2])>> >>
         \o annot_nums(Tail(entries))

build_parent_tree(page_mcid_maps_, ownership_, annot_parent_entries_) ==
    [Nums |-> page_nums(page_mcid_maps_, ownership_, 1)
                  \o annot_nums(annot_parent_entries_)]

-----------------------------------------------------------------------------
(* cli.py, encoding_fixer.py, math_speech.py: the command line.            *)
(* A path is its stem, a list of pieces, and its suffix.  None is the      *)
(* empty sequence and a value that is present a sequence of one.           *)

Path(stem, suffix) == [stem |-> stem, suffix |-> suffix]

\* path.with_stem(path.stem + piece)
with_stem_plus(path, piece) == [path EXCEPT !.stem = Append(@, piece)]

TexArg == Path(<<"doc">>, ".tex")
PdfArg == Path(<<"in">>, ".pdf")
OutputArg == Path(<<"out">>, ".pdf")

MATH_SPEECH_CHOICES == {"sre", "mathjax", "none"}

Namespace(argv_) ==
    [rejected |-> FALSE,
     tex |-> TexArg,
     pdf |-> IF argv_.pdf THEN <<PdfArg>> ELSE <<>>,
     output |-> IF argv_.output THEN <<OutputArg>> ELSE <<>>,
     dump_tree |-> argv_.dump_tree,
     fix_encoding |-> argv_.fix_encoding,
     math_speech |-> argv_.math_speech,
     embed_alt |-> argv_.embed_alt]

\* a mutant: the compiled PDF is a required positional argument
parse_args_pdf_required(argv_) ==
    IF ~argv_.tex \/ ~argv_.pdf \/ argv_.math_speech \notin MATH_SPEECH_CHOICES
    THEN [rejected |-> TRUE]
    ELSE Namespace(argv_)

\* _parse_args: argparse ends the process with status 2 when the positional
\* tex is missing or --math-speech is given a value outside its choices
parse_args(argv_) ==
    IF ~argv_.tex \/ argv_.math_speech \notin MATH_SPEECH_CHOICES
    THEN [rejected |-> TRUE]
    ELSE Namespace(argv_)

\* fix_encoding: gs is what the environment does, [found, writes, returncode];
\* the result is the exception raised, if any, and the files on disk after
fix_encoding(input_path, output_path, gs, disk_) ==
    IF ~gs.found THEN [raised |-> "GhostscriptNotFoundError", disk |-> disk_]
    ELSE LET after == IF gs.writes THEN disk_ \cup {output_path} ELSE disk_
         IN  IF gs.returncode # 0
             THEN [raised |-> "RuntimeError", disk |-> after]
             ELSE [raised |-> "", disk |-> after]

\* a line of the worker's standard output
SpeechLine(text) == [json |-> "object", speech |-> <<text>>]
ObjectLine == [json |-> "object", speech |-> <<>>]
ScalarLine == [json |-> "scalar", speech |-> <<>>]
InvalidLine == [json |-> "invalid", speech |-> <<>>]

\* a mutant: a worker that exits with a non-zero status is an error
run_worker_check_returncode(fallbacks, worker) ==
    IF ~worker.node \/ ~worker.script \/ ~worker.started
    THEN [raised |-> "", speeches |-> fallbacks]
    ELSE IF worker.returncode # 0
    THEN [raised |-> "RuntimeError", speeches |-> <<>>]
    ELSE [raised |-> "",
          speeches |-> [i \in 1..Len(fallbacks) |->
                           IF i <= Len(worker.stdout) /\ worker.stdout[i].speech # <<>>
                           THEN worker.stdout[i].speech[1]
                           ELSE fallbacks[i]]]

\* _run_worker: worker is what the environment does, [node, script, started,
\* returncode, stdout]; started is false for TimeoutExpired and OSError.
\* json.loads of a line that is no object gives a value without .get
run_worker(fallbacks, worker) ==
    IF ~worker.node THEN [raised |-> "", speeches |-> fallbacks]
    ELSE IF ~worker.script THEN [raised |-> "", speeches |-> fallbacks]
    ELSE IF ~worker.started THEN [raised |-> "", speeches |-> fallbacks]
    ELSE IF \E i \in 1..Len(fallbacks) :
                i <= Len(worker.stdout) /\ worker.stdout[i].json = "scalar"
    THEN [raised |-> "AttributeError", speeches |-> <<>>]
    ELSE [raised |-> "",
          speeches |-> [i \in 1..Len(fallbacks) |->
                           IF i <= Len(worker.stdout)
                              /\ worker.stdout[i].json = "object"
                              /\ worker.stdout[i].speech # <<>>
                           THEN worker.stdout[i].speech[1]
                           ELSE fallbacks[i]]]

\* _engine_sre: without latex2mathml the formulas come back as they are
engine_sre(formulas, worker) ==
    IF ~worker.latex2mathml THEN [raised |-> "", speeches |-> formulas]
    ELSE run_worker(formulas, worker)

engine_mathjax(formulas, worker) == run_worker(formulas, worker)

latex_to_speech(formulas, engine, worker) ==
    IF engine = "none" \/ formulas = <<>> THEN [raised |-> "", speeches |-> formulas]
    ELSE IF engine = "sre" THEN engine_sre(formulas, worker)
    ELSE engine_mathjax(formulas, worker)

\* _apply_math_speech on the texts of the tree's formula nodes
apply_math_speech(formulas, engine, worker) ==
    IF formulas = <<>> THEN [raised |-> "", speeches |-> formulas]
    ELSE latex_to_speech(formulas, engine, worker)

\* tag: doc_title = title or pdf_path.stem
doc_title(title, pdf_path) == IF title # <<>> THEN title ELSE pdf_path.stem

-----------------------------------------------------------------------------
(* Idle values: the variables a specification does not use.                *)

NoScore == Ratio(0, 0)

ScoreIdle == needle = <<>> /\ haystack = <<>> /\ score = NoScore
RwIdle ==
    /\ pdf_pages = <<>>
    /\ instructions = <<>>
    /\ rw = PageStart
    /\ all_page_maps = <<>>
    /\ rw_pc = "idle"
ParseIdle ==
    /\ files = <<>>
    /\ root = DocumentNode(DOCUMENT, <<>>)
    /\ parse_pc = "idle"
    /\ call_stack = <<>>
NoPdf == [pages |-> <<>>]
NoStructRoot == [Type |-> "/StructTreeRoot"]
TagLocalsIdle ==
    /\ page_mcid_maps = <<>>
    /\ struct_root = NoStructRoot
    /\ elems = <<>>
    /\ leaf_elems = <<>>
    /\ ownership = <<>>
    /\ annot_parent_entries = <<>>
TagIdle ==
    /\ tree = DocumentNode(DOCUMENT, <<>>)
    /\ pdf = NoPdf
    /\ TagLocalsIdle
    /\ tag_pc = "idle"
NoDict == [tag |-> "Document"]
JsonIdle ==
    /\ json_node = DocumentNode(DOCUMENT, <<>>)
    /\ json_d = NoDict
    /\ json_result = DocumentNode(DOCUMENT, <<>>)
    /\ json_pc = "idle"
NoArgv ==
    [tex |-> FALSE, pdf |-> FALSE, output |-> FALSE, dump_tree |-> FALSE,
     fix_encoding |-> FALSE, math_speech |-> "none", embed_alt |-> FALSE]
NoTexFile == [readable |-> FALSE, title |-> <<>>, formulas |-> <<>>]
NoIo == [stdout |-> <<>>, stderr |-> <<>>, opened |-> {}, written |-> {},
         dc_title |-> <<>>]
NoLocals == [started |-> FALSE]
CliIdle ==
    /\ argv = NoArgv
    /\ tex_file = NoTexFile
    /\ disk = {}
    /\ cli = NoLocals
    /\ io = NoIo
    /\ cli_pc = "idle"
    /\ exit_code = 0

-----------------------------------------------------------------------------
(* SpecScore: _match_score applied to a pair of normalised texts.          *)

ScoreAlphabet == {"a", "B", " "}

RECURSIVE TextsUpTo(_, _)
TextsUpTo(alphabet, n) ==
    IF n = 0 THEN {<<>>}
    ELSE LET shorter == TextsUpTo(alphabet, n - 1)
         IN  shorter \cup {Append(t, c) : t \in shorter, c \in alphabet}

NormTexts == {normalize(t) : t \in TextsUpTo(ScoreAlphabet, MaxTextLen)}

ScoreInit ==
    /\ needle \in NormTexts
    /\ haystack \in NormTexts
    /\ score = NoScore
    /\ RwIdle
    /\ ParseIdle
    /\ TagIdle
    /\ JsonIdle
    /\ CliIdle

MatchScore ==
    /\ score = NoScore
    /\ score' = match_score(needle, haystack)
    /\ UNCHANGED <<needle, haystack>>
    /\ UNCHANGED <<rwVars, parseVars, tagVars, jsonVars, cliVars>>

ScoreNext == MatchScore

SpecScore == ScoreInit /\ [][ScoreNext]_vars

-----------------------------------------------------------------------------
(* SpecRewrite: _tag_content_streams, the instructions of each page        *)
(* arriving one at a time.  rw_pc is "for_page" at the head of the loop    *)
(* over pages and "for_inst" inside the loop over a page's instructions.   *)

RwInit ==
    /\ pdf_pages = <<>>
    /\ instructions = <<>>
    /\ rw = PageStart
    /\ all_page_maps = <<>>
    /\ rw_pc = "for_page"
    /\ ScoreIdle
    /\ ParseIdle
    /\ TagIdle
    /\ JsonIdle
    /\ CliIdle

\* for page_idx, page in enumerate(pdf.pages): the next page is entered
RwNextPage ==
    /\ rw_pc = "for_page"
    /\ Len(all_page_maps) < MaxPages
    /\ instructions' = <<>>
    /\ rw' = PageStart
    /\ rw_pc' = "for_inst"
    /\ UNCHANGED <<pdf_pages, all_page_maps>>
    /\ UNCHANGED <<scoreVars, parseVars, tagVars, jsonVars, cliVars>>

\* for inst in instructions: one iteration
RwInstruction ==
    /\ rw_pc = "for_inst"
    /\ TotalLen(pdf_pages) + Len(instructions) < MaxInstr
    /\ \E inst \in StreamInstructions :
          /\ instructions' = Append(instructions, inst)
          /\ rw' = tag_instruction(rw, inst)
    /\ UNCHANGED <<pdf_pages, all_page_maps, rw_pc>>
    /\ UNCHANGED <<scoreVars, parseVars, tagVars, jsonVars, cliVars>>

\* the stream ends: the final flush, page.Contents and all_page_maps
RwEndOfStream ==
    /\ rw_pc = "for_inst"
    /\ rw' = end_of_stream(rw)
    /\ pdf_pages' = Append(pdf_pages, instructions)
    /\ all_page_maps' = Append(all_page_maps, rw.mcid_map)
    /\ rw_pc' = "for_page"
    /\ UNCHANGED instructions
    /\ UNCHANGED <<scoreVars, parseVars, tagVars, jsonVars, cliVars>>

\* return all_page_maps
RwReturn ==
    /\ rw_pc = "for_page"
    /\ rw_pc' = "returned"
    /\ UNCHANGED <<pdf_pages, instructions, rw, all_page_maps>>
    /\ UNCHANGED <<scoreVars, parseVars, tagVars, jsonVars, cliVars>>

RwNext == RwNextPage \/ RwInstruction \/ RwEndOfStream \/ RwReturn

SpecRewrite == RwInit /\ [][RwNext]_vars

-----------------------------------------------------------------------------
(* SpecRewriteTagged: _tag_content_streams on streams that already hold    *)
(* marked-content operators.                                               *)

\* for inst in instructions: one iteration, on a partially tagged stream
RwTaggedInstruction ==
    /\ rw_pc = "for_inst"
    /\ TotalLen(pdf_pages) + Len(instructions) < MaxInstr
    /\ \E inst \in TaggedStreamInstructions :
          /\ instructions' = Append(instructions, inst)
          /\ rw' = tag_instruction(rw, inst)
    /\ UNCHANGED <<pdf_pages, all_page_maps, rw_pc>>
    /\ UNCHANGED <<scoreVars, parseVars, tagVars, jsonVars, cliVars>>

RwTaggedNext == RwNextPage \/ RwTaggedInstruction \/ RwEndOfStream \/ RwReturn

SpecRewriteTagged == RwInit /\ [][RwTaggedNext]_vars

-----------------------------------------------------------------------------
(* SpecParse: parse(tex_path) on a root file of a few top-level nodes.     *)

MainTex == <<"m", ".", "t", "e", "x">>
SubTex == <<"s", ".", "t", "e", "x">>

SectionMacro(name, text) ==
    LatexMacroNode(name, <<NoArg, NoArg, GroupArg(text)>>, text)
ItemMacro(label) ==
    LatexMacroNode("item", <<IF label = <<>> THEN NoArg ELSE CharsArg(label)>>, label)
BraceMacro(name, text) == LatexMacroNode(name, <<GroupArg(text)>>, text)

\* s.tex: \paragraph{Q} in
SubSource == <<SectionMacro("paragraph", <<"Q">>), LatexCharsNode(<<"i", "n">>)>>

TopNodes ==
    { SectionMacro("section", <<"S">>),
      SectionMacro("subsection", <<" ", "T">>),
      SectionMacro("subsubsection", <<"U">>),
      SectionMacro("paragraph", <<"V">>),
      \* \subsection{ }: a heading with no text
      SectionMacro("subsection", <<" ">>),
      LatexCharsNode(<<"h", "i", " ">>),
      LatexMathNode(<<"$", "x", "$">>),
      \* \input{s}
      BraceMacro("input", <<"s">>),
      \* \begin{itemize} \item A \item[l] B \subsubsection{L}
      \* \begin{verbatim} v\end{verbatim}
      \* \begin{figure} {\includegraphics{g}} \end{figure} \item \end{itemize}
      LatexEnvironmentNode("itemize", <<>>,
          << LatexCharsNode(<<" ">>), ItemMacro(<<>>), LatexCharsNode(<<"A">>),
             ItemMacro(<<"l">>), LatexCharsNode(<<"B">>),
             SectionMacro("subsubsection", <<"L">>),
             LatexEnvironmentNode("verbatim", <<" ", "v">>, <<>>),
             LatexEnvironmentNode("figure", <<>>,
                 << LatexGroupNode(<<BraceMacro("includegraphics", <<"g">>)>>) >>),
             ItemMacro(<<>>) >>),
      \* \begin{center} \section*{W} c {g} \include{zz} \url{u} \end{center},
      \* where zz.tex does not exist
      LatexEnvironmentNode("center", <<>>,
          << LatexMacroNode("section",
                            <<CharsArg(<<"*">>), NoArg, GroupArg(<<"W">>)>>, <<"W">>),
             LatexCharsNode(<<"c">>),
             LatexGroupNode(<<LatexCharsNode(<<"g">>)>>),
             BraceMacro("include", <<"z", "z">>),
             BraceMacro("url", <<"u">>) >>),
      LatexMacroNode("href", <<GroupArg(<<"u">>), GroupArg(<<"d">>)>>, <<"d">>),
      BraceMacro("textbf", <<"b", " ">>) }

ParseInit ==
    /\ \E n \in 0..MaxNodes : \E source \in [1..n -> TopNodes] :
          files = (MainTex :> source) @@ (SubTex :> SubSource)
    /\ root = DocumentNode(DOCUMENT, <<>>)
    /\ parse_pc = "start"
    /\ call_stack = <<>>
    /\ ScoreIdle
    /\ RwIdle
    /\ TagIdle
    /\ JsonIdle
    /\ CliIdle

\* root = DocumentNode(Tag.DOCUMENT); _parse_file(tex_path, root)
ParseFile ==
    /\ parse_pc = "start"
    /\ root' = parse_file(MainTex, root, files)
    /\ parse_pc' = "parsed"
    /\ UNCHANGED <<files, call_stack>>
    /\ UNCHANGED <<scoreVars, rwVars, tagVars, jsonVars, cliVars>>

\* _normalize_headings(root); return root
NormalizeHeadings ==
    /\ parse_pc = "parsed"
    /\ root' = normalize_headings(root)
    /\ parse_pc' = "returned"
    /\ UNCHANGED <<files, call_stack>>
    /\ UNCHANGED <<scoreVars, rwVars, tagVars, jsonVars, cliVars>>

ParseNext == ParseFile \/ NormalizeHeadings

SpecParse == ParseInit /\ [][ParseNext]_vars

-----------------------------------------------------------------------------
(* SpecInclude: parse(tex_path) on files that include each other, one node *)
(* of a file per step.  call_stack holds a frame [path, pos] for every     *)
(* call of _parse_file that has not returned; pos is the next node of the  *)
(* file for _walk.  The interpreter raises RecursionError when the calls   *)
(* nest deeper than MaxDepth.                                              *)

\* \input{m}, \input{s}, \include{zz} (there is no zz.tex), text
IncludeNodes ==
    { BraceMacro("input", <<"m">>),
      BraceMacro("input", <<"s">>),
      BraceMacro("include", <<"z", "z">>),
      LatexCharsNode(<<"h", "i">>) }

IncludeSources == UNION { [1..n -> IncludeNodes] : n \in 0..MaxIncludeLen }

IsInclude(node) == node.type = "macro" /\ node.macroname \in {"input", "include"}

IncludeInit ==
    /\ \E main \in IncludeSources :
          \/ files = (MainTex :> main)
          \/ \E sub \in IncludeSources : files = (MainTex :> main) @@ (SubTex :> sub)
    /\ root = DocumentNode(DOCUMENT, <<>>)
    /\ parse_pc = "start"
    /\ call_stack = <<>>
    /\ ScoreIdle
    /\ RwIdle
    /\ TagIdle
    /\ JsonIdle
    /\ CliIdle

Frame(path) == [path |-> path, pos |-> 1]
Top == call_stack[Len(call_stack)]
NextNode == files[Top.path][Top.pos]
Advanced == [call_stack EXCEPT ![Len(call_stack)].pos = @ + 1]

\* root = DocumentNode(Tag.DOCUMENT); _parse_file(tex_path, root) is entered
ParseEnter ==
    /\ parse_pc = "start"
    /\ call_stack' = <<Frame(MainTex)>>
    /\ parse_pc' = "walking"
    /\ UNCHANGED <<files, root>>
    /\ UNCHANGED <<scoreVars, rwVars, tagVars, jsonVars, cliVars>>

\* _walk meets \input or \include: _handle_macro calls _parse_file on the
\* file if it is there, and returns at once if it is not
WalkInclude ==
    /\ parse_pc = "walking"
    /\ Top.pos <= Len(files[Top.path])
    /\ IsInclude(NextNode)
    /\ \E filename \in {macro_arg_text(NextNode)} :
          IF filename # <<>> /\ include_path(filename) \in DOMAIN files
          THEN IF Len(call_stack) >= MaxDepth
               THEN /\ parse_pc' = "RecursionError"
                    /\ UNCHANGED call_stack
               ELSE /\ call_stack' = Append(Advanced, Frame(include_path(filename)))
                    /\ UNCHANGED parse_pc
          ELSE /\ call_stack' = Advanced
               /\ UNCHANGED parse_pc
    /\ UNCHANGED <<files, root>>
    /\ UNCHANGED <<scoreVars, rwVars, tagVars, jsonVars, cliVars>>

\* _walk meets any other node
WalkNode ==
    /\ parse_pc = "walking"
    /\ Top.pos <= Len(files[Top.path])
    /\ ~IsInclude(NextNode)
    /\ root' = walk(<<NextNode>>, root, files)
    /\ call_stack' = Advanced
    /\ UNCHANGED <<files, parse_pc>>
    /\ UNCHANGED <<scoreVars, rwVars, tagVars, jsonVars, cliVars>>

\* _walk is through with the file: _parse_file returns to its caller
ParseFileReturn ==
    /\ parse_pc = "walking"
    /\ Top.pos > Len(files[Top.path])
    /\ call_stack' = SubSeq(call_stack, 1, Len(call_stack) - 1)
    /\ parse_pc' = IF Len(call_stack) = 1 THEN "parsed" ELSE "walking"
    /\ UNCHANGED <<files, root>>
    /\ UNCHANGED <<scoreVars, rwVars, tagVars, jsonVars, cliVars>>

IncludeNext ==
    \/ ParseEnter
    \/ WalkInclude
    \/ WalkNode
    \/ ParseFileReturn
    \/ NormalizeHeadings

\* the interpreter keeps running the program
SpecInclude == IncludeInit /\ [][IncludeNext]_vars /\ WF_vars(IncludeNext)

-----------------------------------------------------------------------------
(* SpecTag: tag(pdf_path, tree, output_path) from the content-stream       *)
(* tagging on, one step of tag per action.                                 *)

Tj(bytes) == Inst(<<Str(bytes)>>, "Tj")

\* BT (abc) Tj ET
StreamAbc == <<BT, Tj(<<97, 98, 99>>), ET>>
\* BT (abc defghi) Tj ( ) Tj ET
StreamLong == <<BT, Tj(<<97, 98, 99, 32, 100, 101, 102, 103, 104, 105>>), Tj(<<32>>), ET>>
\* 0 0 1 1 re f: no text
StreamNoText == <<re, fill>>
\* BT (x y) Tj (abc) Tj ET
StreamTwo == <<BT, Tj(<<120, 32, 121>>), Tj(<<97, 98, 99>>), ET>>

\* a link annotation with a URI action
LinkUri == [Subtype |-> "/Link", A |-> [S |-> "/URI", URI |-> <<"u">>]]
\* a link annotation with a destination
LinkDest == [Subtype |-> "/Link", Dest |-> <<"d">>]
\* a link annotation that has /Contents already
LinkContents == [Subtype |-> "/Link", Contents |-> <<"c">>]
\* a link annotation with no action, no destination and no /Contents
LinkBare == [Subtype |-> "/Link"]
\* an annotation that is not a link
Widget == [Subtype |-> "/Widget"]

\* BT (abc) Tj (abc) Tj ET
StreamRepeat == <<BT, Tj(<<97, 98, 99>>), Tj(<<97, 98, 99>>), ET>>

PageChoices ==
    { [Contents |-> StreamAbc],
      [Contents |-> StreamRepeat],
      [Contents |-> StreamLong, Annots |-> <<LinkUri>>],
      [Contents |-> StreamNoText, Annots |-> <<Widget, LinkDest>>],
      [Contents |-> StreamTwo, Annots |-> <<LinkContents, LinkBare>>] }

Node(tag, text, children) == [tag |-> tag, text |-> text, children |-> children]

NodeChoices ==
    { DocumentNode(PARAGRAPH, <<"a", "b", "c">>),
      DocumentNode(FORMULA, <<"A", "B", "C">>),
      DocumentNode(LINK, <<"u">>),
      \* a list of an item without children and an item with a paragraph
      Node(LIST, <<>>,
           << DocumentNode(LIST_ITEM, <<>>),
              Node(LIST_ITEM, <<>>, <<DocumentNode(PARAGRAPH, <<"x", " ", "y">>)>>) >>),
      \* a section of a heading, a paragraph of white space and a node whose
      \* tag is not a member of Tag
      Node(SECTION, <<>>,
           << DocumentNode(HEADING1, <<"a", "b", "c", " ", "d", "e", "f", "g", "h">>),
              DocumentNode(PARAGRAPH, <<" ">>),
              DocumentNode("Note", <<"n">>) >>) }

TagInit ==
    /\ \E n \in 0..MaxKids : \E children \in [1..n -> NodeChoices] :
          tree = Node(DOCUMENT, <<>>, children)
    /\ \E n \in 0..MaxDocPages : \E pages \in [1..n -> PageChoices] :
          pdf = [pages |-> pages]
    /\ TagLocalsIdle
    /\ tag_pc = "opened"
    /\ ScoreIdle
    /\ RwIdle
    /\ ParseIdle
    /\ JsonIdle
    /\ CliIdle

\* page_mcid_maps = _tag_content_streams(pdf, pdf_path), then /StructParents
TagContentStreams ==
    /\ tag_pc = "opened"
    /\ page_mcid_maps' =
          tag_content_streams([p \in 1..Len(pdf.pages) |-> pdf.pages[p].Contents])
    /\ pdf' = [pdf EXCEPT !.pages =
                  [p \in 1..Len(pdf.pages) |->
                      SetKey(SetKey(pdf.pages[p], "Contents",
                                    tag_page(PageStart, pdf.pages[p].Contents)
                                        .new_instructions),
                             "StructParents", p - 1)]]
    /\ tag_pc' = "tagged"
    /\ UNCHANGED <<tree, struct_root, elems, leaf_elems, ownership,
                   annot_parent_entries>>
    /\ UNCHANGED <<scoreVars, rwVars, parseVars, jsonVars, cliVars>>

\* struct_root, leaf_elems, doc_elem = _build_element(...), struct_root["/K"]
BuildElement ==
    /\ tag_pc = "tagged"
    /\ \E r \in {build_element(tree, StructRoot, [elems |-> <<>>, leaf_elems |-> <<>>])} :
          /\ elems' = r.elems
          /\ leaf_elems' = r.leaf_elems
          /\ struct_root' = SetKey(struct_root, "K", Ref(r.elem))
    /\ tag_pc' = "built"
    /\ UNCHANGED <<tree, pdf, page_mcid_maps, ownership, annot_parent_entries>>
    /\ UNCHANGED <<scoreVars, rwVars, parseVars, jsonVars, cliVars>>

\* ownership = _link_structure_to_content(pdf, leaf_elems, page_mcid_maps)
LinkStructureToContent ==
    /\ tag_pc = "built"
    /\ \E r \in {link_structure_to_content(leaf_elems, page_mcid_maps, elems)} :
          /\ elems' = r.elems
          /\ ownership' = r.ownership
    /\ tag_pc' = "linked"
    /\ UNCHANGED <<tree, pdf, page_mcid_maps, struct_root, leaf_elems,
                   annot_parent_entries>>
    /\ UNCHANGED <<scoreVars, rwVars, parseVars, jsonVars, cliVars>>

\* annot_parent_entries = _link_annotations_to_structure(pdf, leaf_elems, struct_root)
LinkAnnotationsToStructure ==
    /\ tag_pc = "linked"
    /\ \E r \in {link_annotations_to_structure(pdf.pages, leaf_elems, elems, struct_root)} :
          /\ elems' = r.elems
          /\ pdf' = [pdf EXCEPT !.pages = r.pages]
          /\ annot_parent_entries' = r.annot_parent_entries
    /\ tag_pc' = "annotated"
    /\ UNCHANGED <<tree, page_mcid_maps, struct_root, leaf_elems, ownership>>
    /\ UNCHANGED <<scoreVars, rwVars, parseVars, jsonVars, cliVars>>

\* parent_tree = _build_parent_tree(...), /ParentTree, /ParentTreeNextKey, save
BuildParentTree ==
    /\ tag_pc = "annotated"
    /\ struct_root' =
          SetKey(SetKey(struct_root, "ParentTree",
                        build_parent_tree(page_mcid_maps, ownership,
                                          annot_parent_entries)),
                 "ParentTreeNextKey", Len(pdf.pages) + Len(annot_parent_entries))
    /\ tag_pc' = "saved"
    /\ UNCHANGED <<tree, pdf, page_mcid_maps, elems, leaf_elems, ownership,
                   annot_parent_entries>>
    /\ UNCHANGED <<scoreVars, rwVars, parseVars, jsonVars, cliVars>>

TagNext ==
    \/ TagContentStreams
    \/ BuildElement
    \/ LinkStructureToContent
    \/ LinkAnnotationsToStructure
    \/ BuildParentTree

SpecTag == TagInit /\ [][TagNext]_vars

-----------------------------------------------------------------------------
(* SpecJson: DocumentNode.to_dict, then DocumentNode.from_dict on its      *)
(* result.                                                                 *)

JsonTags == {DOCUMENT, PARAGRAPH, FORMULA, LIST_ITEM}
JsonTexts == {<<>>, <<"a">>, <<" ">>}

JsonLeaves == {DocumentNode(t, x) : t \in JsonTags, x \in JsonTexts}

\* children to choose from: every leaf, and two nodes with children
JsonNodeChoices ==
    JsonLeaves \cup
    { Node(LIST, <<>>, <<DocumentNode(LIST_ITEM, <<>>), DocumentNode(LINK, <<"u">>)>>),
      Node(SECTION, <<"s">>,
           <<Node(HEADING1, <<"h">>, <<DocumentNode(PARAGRAPH, <<>>)>>)>>) }

JsonInit ==
    /\ \E top \in JsonLeaves : \E n \in 0..MaxJsonKids :
          \E children \in [1..n -> JsonNodeChoices] :
              json_node = Node(top.tag, top.text, children)
    /\ json_d = NoDict
    /\ json_result = DocumentNode(DOCUMENT, <<>>)
    /\ json_pc = "start"
    /\ ScoreIdle
    /\ RwIdle
    /\ ParseIdle
    /\ TagIdle
    /\ CliIdle

\* d = node.to_dict()
ToDict ==
    /\ json_pc = "start"
    /\ json_d' = to_dict(json_node)
    /\ json_pc' = "serialised"
    /\ UNCHANGED <<json_node, json_result>>
    /\ UNCHANGED <<scoreVars, rwVars, parseVars, tagVars, cliVars>>

\* DocumentNode.from_dict(d)
FromDict ==
    /\ json_pc = "serialised"
    /\ json_result' = from_dict(json_d)
    /\ json_pc' = "parsed"
    /\ UNCHANGED <<json_node, json_d>>
    /\ UNCHANGED <<scoreVars, rwVars, parseVars, tagVars, cliVars>>

JsonNext == ToDict \/ FromDict

SpecJson == JsonInit /\ [][JsonNext]_vars

-----------------------------------------------------------------------------
(* SpecCli: main(argv), one step of main per action.  What the file        *)
(* system, Ghostscript, the speech worker and pikepdf do is chosen at the  *)
(* step that meets it.  An exception nobody catches ends the process with  *)
(* status 1.                                                               *)

RawFormula == <<"$", "x", "$">>
Spoken == <<"x">>

\* the command lines: --math-speech bogus is outside the choices
ArgvChoices ==
    [tex : BOOLEAN, pdf : BOOLEAN, output : BOOLEAN, dump_tree : BOOLEAN,
     fix_encoding : BOOLEAN, math_speech : MATH_SPEECH_CHOICES \cup {"bogus"},
     embed_alt : BOOLEAN]

\* the source file: whether it can be read, its \title, its formulas
TexFileChoices ==
    [readable : BOOLEAN, title : {<<>>, <<"T">>}, formulas : {<<>>, <<RawFormula>>}]

\* what Ghostscript does
GsRuns == [found : BOOLEAN, writes : BOOLEAN, returncode : {0, 1}]

\* what the speech worker does
WorkerRuns ==
    [latex2mathml : BOOLEAN, node : BOOLEAN, script : BOOLEAN, started : BOOLEAN,
     returncode : {0, 1},
     stdout : {<<>>, <<SpeechLine(Spoken)>>, <<ObjectLine>>, <<ScalarLine>>,
               <<InvalidLine>>}]

\* the locals of main before its first statement
MainStart ==
    [args |-> [rejected |-> TRUE], tree |-> <<>>, alt_html |-> <<>>,
     pdf_input |-> <<>>, output |-> <<>>, intermediate |-> <<>>,
     encoding_fixed |-> FALSE, title |-> <<>>, gs |-> <<>>, worker |-> <<>>]

CliInit ==
    /\ argv \in ArgvChoices
    /\ tex_file \in TexFileChoices
    /\ disk = IF argv.pdf THEN {PdfArg} ELSE {}
    /\ cli = MainStart
    /\ io = NoIo
    /\ cli_pc = "parse_args"
    /\ exit_code = 0
    /\ ScoreIdle
    /\ RwIdle
    /\ ParseIdle
    /\ TagIdle
    /\ JsonIdle

\* the process ends with this status
Exit(status) == cli_pc' = "exited" /\ exit_code' = status

\* an exception leaves main: traceback on stderr, status 1
Raise(exception) ==
    /\ io' = [io EXCEPT !.stderr = Append(@, exception)]
    /\ Exit(1)

\* args = _parse_args(argv)
CliParseArgs ==
    /\ cli_pc = "parse_args"
    /\ \E args \in {parse_args(argv)} :
          IF args.rejected
          THEN /\ io' = [io EXCEPT !.stderr = Append(@, "usage")]
               /\ Exit(2)
               /\ UNCHANGED cli
          ELSE /\ cli' = [cli EXCEPT !.args = args]
               /\ cli_pc' = "parse"
               /\ UNCHANGED <<io, exit_code>>
    /\ UNCHANGED <<argv, tex_file, disk>>
    /\ UNCHANGED <<scoreVars, rwVars, parseVars, tagVars, jsonVars>>

\* tree = parse(args.tex): only the texts of its formula nodes are kept
CliParse ==
    /\ cli_pc = "parse"
    /\ IF ~tex_file.readable
       THEN Raise("OSError") /\ UNCHANGED cli
       ELSE /\ cli' = [cli EXCEPT !.tree = tex_file.formulas]
            /\ cli_pc' = "alt_html"
            /\ UNCHANGED <<io, exit_code>>
    /\ UNCHANGED <<argv, tex_file, disk>>
    /\ UNCHANGED <<scoreVars, rwVars, parseVars, tagVars, jsonVars>>

\* if args.embed_alt and not args.dump_tree: alt_html = generate_alt_html(...)
CliGenerateAlt ==
    /\ cli_pc = "alt_html"
    /\ cli' = IF cli.args.embed_alt /\ ~cli.args.dump_tree
              THEN [cli EXCEPT !.alt_html = <<"html">>]
              ELSE cli
    /\ cli_pc' = "math_speech"
    /\ UNCHANGED <<argv, tex_file, disk, io, exit_code>>
    /\ UNCHANGED <<scoreVars, rwVars, parseVars, tagVars, jsonVars>>

\* if args.math_speech != "none": _apply_math_speech(tree, args.math_speech)
CliMathSpeech ==
    /\ cli_pc = "math_speech"
    /\ IF cli.args.math_speech = "none"
       THEN /\ cli_pc' = "dump_tree"
            /\ UNCHANGED <<cli, io, exit_code>>
       ELSE \E worker \in WorkerRuns :
              \E r \in {apply_math_speech(cli.tree, cli.args.math_speech, worker)} :
                 IF r.raised # ""
                 THEN /\ Raise(r.raised)
                      /\ cli' = [cli EXCEPT !.worker = <<worker>>]
                 ELSE /\ cli' = [cli EXCEPT !.tree = r.speeches,
                                            !.worker = <<worker>>]
                      /\ cli_pc' = "dump_tree"
                      /\ UNCHANGED <<io, exit_code>>
    /\ UNCHANGED <<argv, tex_file, disk>>
    /\ UNCHANGED <<scoreVars, rwVars, parseVars, tagVars, jsonVars>>

\* if args.dump_tree: print(tree.to_json(indent=2)); return
CliDumpTree ==
    /\ cli_pc = "dump_tree"
    /\ IF cli.args.dump_tree
       THEN /\ io' = [io EXCEPT !.stdout = Append(@, [tree |-> cli.tree])]
            /\ Exit(0)
       ELSE /\ cli_pc' = "check_pdf"
            /\ UNCHANGED <<io, exit_code>>
    /\ UNCHANGED <<argv, tex_file, disk, cli>>
    /\ UNCHANGED <<scoreVars, rwVars, parseVars, tagVars, jsonVars>>

\* if args.pdf is None: print(error); sys.exit(1); then pdf_input and output
CliCheckPdf ==
    /\ cli_pc = "check_pdf"
    /\ IF cli.args.pdf = <<>>
       THEN /\ io' = [io EXCEPT !.stderr = Append(@, "error: PDF path is required")]
            /\ Exit(1)
            /\ UNCHANGED cli
       ELSE /\ cli' = [cli EXCEPT
                          !.pdf_input = cli.args.pdf,
                          !.output = IF cli.args.output # <<>> THEN cli.args.output
                                     ELSE <<with_stem_plus(cli.args.pdf[1], "_tagged")>>]
            /\ cli_pc' = "fix_encoding"
            /\ UNCHANGED <<io, exit_code>>
    /\ UNCHANGED <<argv, tex_file, disk>>
    /\ UNCHANGED <<scoreVars, rwVars, parseVars, tagVars, jsonVars>>

\* if args.fix_encoding: intermediate = ...; try: fix_encoding(...) except
\* GhostscriptNotFoundError: print(warning)
CliFixEncoding ==
    /\ cli_pc = "fix_encoding"
    /\ IF ~cli.args.fix_encoding
       THEN /\ cli_pc' = "tag"
            /\ UNCHANGED <<cli, disk, io, exit_code>>
       ELSE \E gs \in GsRuns :
              \E intermediate \in {with_stem_plus(cli.output[1], "_tmp_enc")} :
                 \E r \in {fix_encoding(cli.pdf_input[1], intermediate, gs, disk)} :
                    /\ disk' = r.disk
                    /\ CASE r.raised = "GhostscriptNotFoundError" ->
                              /\ cli' = [cli EXCEPT !.intermediate = <<intermediate>>,
                                                    !.gs = <<gs>>]
                              /\ io' = [io EXCEPT !.stderr =
                                           Append(@, "warning: Ghostscript not found")]
                              /\ cli_pc' = "tag"
                              /\ UNCHANGED exit_code
                         [] r.raised = "RuntimeError" ->
                              /\ cli' = [cli EXCEPT !.intermediate = <<intermediate>>,
                                                    !.gs = <<gs>>]
                              /\ Raise(r.raised)
                         [] OTHER ->
                              /\ cli' = [cli EXCEPT !.intermediate = <<intermediate>>,
                                                    !.gs = <<gs>>,
                                                    !.pdf_input = <<intermediate>>,
                                                    !.encoding_fixed = TRUE]
                              /\ cli_pc' = "tag"
                              /\ UNCHANGED <<io, exit_code>>
    /\ UNCHANGED <<argv, tex_file>>
    /\ UNCHANGED <<scoreVars, rwVars, parseVars, tagVars, jsonVars>>

\* title = extract_title(args.tex); tag(pdf_input, tree, output, title=title):
\* pikepdf.open fails on a file that is not there, and tag can fail later
CliTag ==
    /\ cli_pc = "tag"
    /\ \E fails \in BOOLEAN :
          IF cli.pdf_input[1] \notin disk
          THEN /\ Raise("FileNotFoundError")
               /\ cli' = [cli EXCEPT !.title = tex_file.title]
               /\ UNCHANGED disk
          ELSE IF fails
          THEN /\ io' = [io EXCEPT !.opened = @ \cup {cli.pdf_input[1]},
                                   !.stderr = Append(@, "PdfError")]
               /\ Exit(1)
               /\ cli' = [cli EXCEPT !.title = tex_file.title]
               /\ UNCHANGED disk
          ELSE /\ io' = [io EXCEPT !.opened = @ \cup {cli.pdf_input[1]},
                                   !.written = @ \cup {cli.output[1]},
                                   !.dc_title = doc_title(tex_file.title,
                                                          cli.pdf_input[1])]
               /\ disk' = disk \cup {cli.output[1]}
               /\ cli' = [cli EXCEPT !.title = tex_file.title]
               /\ cli_pc' = "embed_alt"
               /\ UNCHANGED exit_code
    /\ UNCHANGED <<argv, tex_file>>
    /\ UNCHANGED <<scoreVars, rwVars, parseVars, tagVars, jsonVars>>

\* if alt_html: embed_alt_document(output, alt_html, output)
CliEmbedAlt ==
    /\ cli_pc = "embed_alt"
    /\ IF cli.alt_html = <<>>
       THEN /\ cli_pc' = "cleanup"
            /\ UNCHANGED <<io, exit_code>>
       ELSE \E fails \in BOOLEAN :
              IF fails
              THEN /\ io' = [io EXCEPT !.opened = @ \cup {cli.output[1]},
                                       !.stderr = Append(@, "PdfError")]
                   /\ Exit(1)
              ELSE /\ io' = [io EXCEPT !.opened = @ \cup {cli.output[1]},
                                       !.written = @ \cup {cli.output[1]}]
                   /\ cli_pc' = "cleanup"
                   /\ UNCHANGED exit_code
    /\ UNCHANGED <<argv, tex_file, disk, cli>>
    /\ UNCHANGED <<scoreVars, rwVars, parseVars, tagVars, jsonVars>>

\* print("Tagged PDF written to ..."); if encoding_fixed and intermediate:
\* intermediate.unlink(missing_ok=True); main returns
CliCleanUp ==
    /\ cli_pc = "cleanup"
    /\ io' = [io EXCEPT !.stdout = Append(@, [written |-> cli.output[1]])]
    /\ disk' = IF cli.encoding_fixed /\ cli.intermediate # <<>>
               THEN disk \ {cli.intermediate[1]}
               ELSE disk
    /\ Exit(0)
    /\ UNCHANGED <<argv, tex_file, cli>>
    /\ UNCHANGED <<scoreVars, rwVars, parseVars, tagVars, jsonVars>>

CliNext ==
    \/ CliParseArgs
    \/ CliParse
    \/ CliGenerateAlt
    \/ CliMathSpeech
    \/ CliDumpTree
    \/ CliCheckPdf
    \/ CliFixEncoding
    \/ CliTag
    \/ CliEmbedAlt
    \/ CliCleanUp

SpecCli == CliInit /\ [][CliNext]_vars

-----------------------------------------------------------------------------
(* What the claims speak of, stated on the streams themselves.             *)

IsTextOp(inst) == inst.operator \in {"Tj", "TJ", "'", "\""}
IsBDC(inst, tag) ==
    /\ inst.operator = "BDC"
    /\ Len(inst.operands) = 2
    /\ inst.operands[1] = [kind |-> "Name", name |-> tag]
IsSpanBDC(inst) == IsBDC(inst, "/Span") /\ "MCID" \in DOMAIN inst.operands[2].dict
IsMark(inst) == inst.operator \in {"BDC", "EMC"}

\* position i of stream s lies in a text block: the last BT or ET before it is a BT
InBlock(s, i) ==
    \E j \in 1..(i - 1) :
        /\ s[j].operator = "BT"
        /\ \A k \in (j + 1)..(i - 1) : s[k].operator \notin {"BT", "ET"}

\* position i of input stream s holds an instruction outside every text block
IsOutside(s, i) == ~InBlock(s, i) /\ s[i].operator \notin {"BT", "ET"}

RECURSIVE OutsideFrom(_, _)
\* the instructions of s outside the text blocks, from position i on
OutsideFrom(s, i) ==
    IF i > Len(s) THEN <<>>
    ELSE (IF IsOutside(s, i) THEN <<s[i]>> ELSE <<>>) \o OutsideFrom(s, i + 1)

\* position j of rewritten stream out lies in an /Artifact sequence
InArtifact(out, j) ==
    /\ ~IsMark(out[j])
    /\ \E b \in 1..(j - 1) :
          /\ IsBDC(out[b], "/Artifact")
          /\ \A k \in (b + 1)..(j - 1) : ~IsMark(out[k])

RECURSIVE WrappedFrom(_, _)
\* the instructions of out that lie in an /Artifact sequence, from position j on
WrappedFrom(out, j) ==
    IF j > Len(out) THEN <<>>
    ELSE (IF InArtifact(out, j) THEN <<out[j]>> ELSE <<>>) \o WrappedFrom(out, j + 1)

\* the runs of outside instructions of s: no BT separates the members of a run
OutsideRuns(s) ==
    Cardinality({i \in 1..Len(s) :
        /\ IsOutside(s, i)
        /\ ~\E j \in 1..(i - 1) :
              /\ IsOutside(s, j)
              /\ \A k \in (j + 1)..(i - 1) : s[k].operator # "BT"})

ArtifactWrappers(out) ==
    Cardinality({b \in 1..Len(out) : IsBDC(out[b], "/Artifact")})

TextOpsIn(s) == Cardinality({i \in 1..Len(s) : IsTextOp(s[i])})
BlockTextOpsIn(s) == Cardinality({i \in 1..Len(s) : IsTextOp(s[i]) /\ InBlock(s, i)})

\* the MCIDs of a table are 0, 1, ... in the order of its entries
DenseMap(m) == \A i \in 1..Len(m) : m[i][1] = i - 1

\* the MCIDs carried by the /Span sequences of out, in stream order
SpanMcids(out) ==
    LET spans == SelectSeq(out, IsSpanBDC)
    IN  [i \in 1..Len(spans) |-> spans[i].operands[2].dict.MCID]

PageFinished == rw_pc = "for_page" /\ pdf_pages # <<>>

-----------------------------------------------------------------------------
(* C1 *)

\* C1 as stated: a page's MCID table has as many entries as the page's content
\* stream has text-drawing operators, wherever they stand, with MCIDs 0..k-1.
C1_AllTextOpsCounted ==
    \A p \in 1..Len(all_page_maps) :
        /\ Len(all_page_maps[p]) = TextOpsIn(pdf_pages[p])
        /\ DenseMap(all_page_maps[p])

\* C1 amended: a page's MCID table has one entry per text-drawing operator that
\* stands inside a text block (after a BT with no ET since), its MCIDs are
\* 0..k-1 in table order, and the /Span sequences of the rewritten stream carry
\* them in increasing order; the counter restarts on every page.
C1_DenseMcids ==
    /\ \A p \in 1..Len(all_page_maps) :
          /\ Len(all_page_maps[p]) = BlockTextOpsIn(pdf_pages[p])
          /\ DenseMap(all_page_maps[p])
    /\ rw_pc = "for_inst" =>
          /\ Len(rw.mcid_map) = BlockTextOpsIn(instructions)
          /\ DenseMap(rw.mcid_map)
          /\ rw.mcid = Len(rw.mcid_map)
    /\ PageFinished =>
          SpanMcids(rw.new_instructions) = [i \in 1..Len(rw.mcid_map) |-> i - 1]

\* C1 witness: two pages rewritten, each with at least one MCID.
C1_Witness ==
    /\ rw_pc = "for_page"
    /\ Len(all_page_maps) = 2
    /\ Len(all_page_maps[1]) >= 1
    /\ Len(all_page_maps[2]) >= 1

-----------------------------------------------------------------------------
(* C2 *)

SpanWrapped(out, j) ==
    /\ j > 1
    /\ IsSpanBDC(out[j - 1])
    /\ j < Len(out)
    /\ out[j + 1].operator = "EMC"

\* C2 as stated: every text-drawing operator of the rewritten stream has a
\* BDC /Span with an /MCID right before it and an EMC right after it.
C2_EveryTextOpWrapped ==
    \A j \in 1..Len(rw.new_instructions) :
        IsTextOp(rw.new_instructions[j]) => SpanWrapped(rw.new_instructions, j)

\* C2 amended: every text-drawing operator of the rewritten stream that stands
\* inside a text block has a BDC /Span with an /MCID right before it and an EMC
\* right after it.
C2_BlockTextOpWrapped ==
    \A j \in 1..Len(rw.new_instructions) :
        (IsTextOp(rw.new_instructions[j]) /\ InBlock(rw.new_instructions, j))
            => SpanWrapped(rw.new_instructions, j)

\* C2 witness: a finished page with two wrapped text operators.
C2_Witness ==
    /\ PageFinished
    /\ Cardinality({j \in 1..Len(rw.new_instructions) :
            /\ IsTextOp(rw.new_instructions[j])
            /\ SpanWrapped(rw.new_instructions, j)}) = 2

-----------------------------------------------------------------------------
(* C3 *)

\* C3: on a finished page, the instructions inside /Artifact sequences are
\* exactly the input instructions outside the text blocks, in order; the
\* /Artifact sequences do not nest and none is empty; and there is one
\* /Artifact sequence per run of outside instructions.
C3_ArtifactWrappers ==
    PageFinished =>
        LET out == rw.new_instructions
        IN  /\ WrappedFrom(out, 1) = OutsideFrom(instructions, 1)
            /\ \A b \in 1..Len(out) :
                  IsBDC(out[b], "/Artifact") =>
                      \E e \in (b + 2)..Len(out) :
                          /\ out[e].operator = "EMC"
                          /\ \A k \in (b + 1)..(e - 1) : ~IsMark(out[k])
            /\ ArtifactWrappers(out) = OutsideRuns(instructions)

\* C3 witness: a finished page with two /Artifact sequences.
C3_Witness == PageFinished /\ ArtifactWrappers(rw.new_instructions) = 2

-----------------------------------------------------------------------------
(* C7 *)

\* the score the specification gives for normalised texts n and h
SpecScoreOf(n, h) ==
    IF n = h THEN Ratio(1, 1)
    ELSE IF IsSubstr(n, h) \/ IsSubstr(h, n)
    THEN Ratio(Min(Len(n), Len(h)), Max(Len(n), Len(h)))
    ELSE Ratio(Cardinality(WordSet(n) \cap WordSet(h)),
               Max(Cardinality(WordSet(n)), Cardinality(WordSet(h))))

SameRatio(a, b) == a.den > 0 /\ b.den > 0 /\ a.num * b.den = b.num * a.den

ScoreBasics ==
    /\ score.den > 0
    /\ 0 <= score.num
    /\ score.num <= score.den
    /\ needle = haystack => score.num = score.den
    /\ SameRatio(score, SpecScoreOf(needle, haystack))

\* C7 as stated: for all normalised texts, the empty one included, the score is
\* in [0,1], score(n,n) = 1, score(n,"") = 0, and it follows the three rules.
C7_ScoreEmptyIsZero ==
    score # NoScore => (ScoreBasics /\ (haystack = <<>> => score.num = 0))

\* C7 amended: for all normalised texts the score is in [0,1], score(n,n) = 1
\* (also for the empty n), score(n,"") = 0 for every non-empty n, and it is 1
\* for equal texts, min/max of the lengths when one contains the other, and the
\* word overlap over the larger word count otherwise.
C7_ScoreContract ==
    score # NoScore =>
        (ScoreBasics /\ ((haystack = <<>> /\ needle # <<>>) => score.num = 0))

\* C7 witness: a word-overlap score strictly between 0 and 1 has been computed.
C7_Witness ==
    /\ score # NoScore
    /\ ~IsSubstr(needle, haystack)
    /\ ~IsSubstr(haystack, needle)
    /\ 0 < score.num
    /\ score.num < score.den

-----------------------------------------------------------------------------
(* C8 *)

HeadingLevel(tag) == CHOOSE l \in 1..4 : <<"H1", "H2", "H3", "H4">>[l] = tag
IsHeading(tag) == tag \in {"H1", "H2", "H3", "H4"}

RECURSIVE HeadingSeq(_)
\* the headings of a tree in document order, as <<level, text>>
HeadingSeq(node) ==
    (IF IsHeading(node.tag) THEN <<<<HeadingLevel(node.tag), node.text>>>> ELSE <<>>)
        \o Concat([i \in 1..Len(node.children) |-> HeadingSeq(node.children[i])])

HasText(h) == ~IsBlank(h[2])
LevelsOf(hs) == {hs[i][1] : i \in 1..Len(hs)}

\* post keeps the headings of pre, in order, and the order of their levels
OrderPreserved(pre, post) ==
    /\ Len(pre) = Len(post)
    /\ \A i \in 1..Len(pre) : pre[i][2] = post[i][2]
    /\ \A i, j \in 1..Len(pre) :
          /\ pre[i][1] < pre[j][1] => post[i][1] < post[j][1]
          /\ pre[i][1] = pre[j][1] => post[i][1] = post[j][1]

\* C8: in the tree parse returns, the heading levels present are exactly 1..k
\* for some k, and normalisation keeps the headings that have text, in order,
\* and maps their levels strictly monotonically (equal levels stay equal).
C8_HeadingsDense ==
    /\ [](parse_pc = "returned" =>
            LevelsOf(HeadingSeq(root)) = 1..Cardinality(LevelsOf(HeadingSeq(root))))
    /\ [][(parse_pc = "parsed" /\ parse_pc' = "returned") =>
            \A pre \in {SelectSeq(HeadingSeq(root), HasText)} :
                \A post \in {HeadingSeq(root')} : OrderPreserved(pre, post)]_vars

\* C8 witness: a source that used only levels 2 and 4 has come back with levels
\* 1 and 2.
C8_Witness ==
    /\ parse_pc = "returned"
    /\ LevelsOf(SelectSeq(HeadingSeq(parse_file(MainTex, DocumentNode("Document", <<>>), files)),
                          HasText)) = {2, 4}
    /\ LevelsOf(HeadingSeq(root)) = {1, 2}

-----------------------------------------------------------------------------
(* Reading the structure tree.                                             *)

\* the entries of an element's /K, whatever its form
KItems(e) ==
    IF "K" \notin DOMAIN e THEN <<>>
    ELSE IF IsArray(e.K) THEN e.K.items
    ELSE <<e.K>>

IsRef(k) == k.Type = "/StructElem"
IsMCR(k) == k.Type = "/MCR"

\* the references to child structure elements in an element's /K
Kids(e) == SelectSeq(KItems(e), IsRef)

Handles == 1..Len(elems)

Built == tag_pc \in {"built", "linked", "annotated", "saved"}
Linked == tag_pc \in {"linked", "annotated", "saved"}
Annotated == tag_pc \in {"annotated", "saved"}
Saved == tag_pc = "saved"

\* every (page, mcid) of the MCID tables
McidKeys ==
    UNION { { <<p - 1, page_mcid_maps[p][i][1]>> : i \in 1..Len(page_mcid_maps[p]) } :
            p \in 1..Len(page_mcid_maps) }

\* the extracted text of an MCID
McidText(key) ==
    LET map == page_mcid_maps[key[1] + 1]
    IN  map[CHOOSE i \in 1..Len(map) : map[i][1] = key[2]][2]

\* how many times an element's /K refers to the marked content (page, mcid)
McrCount(h, key) ==
    LET items == KItems(elems[h])
    IN  Cardinality({i \in 1..Len(items) : items[i] = MCR(key[1], key[2])})

\* the elements whose /K refers to the marked content (page, mcid)
Owners(key) == {h \in Handles : McrCount(h, key) > 0}

LeafHandles == {leaf_elems[i][1] : i \in 1..Len(leaf_elems)}

-----------------------------------------------------------------------------
(* C4 *)

Nums == struct_root.ParentTree.Nums
EntriesFor(key) == {i \in 1..Len(Nums) : Nums[i][1] = key}

\* the owner the ownership map records for (page, mcid), or the root
OwnerRef(key) ==
    IF key \in DOMAIN ownership THEN Ref(ownership[key]) ELSE RootRef

\* C4: once tag has built the parent tree, /Nums has exactly one entry keyed by
\* the index of each page that has k > 0 MCIDs, its value is an array of length
\* k whose element i is the owner recorded for (page, i), or the structure tree
\* root when none is recorded, and /Nums has no entry for a page without MCIDs.
C4_ParentTreePerPage ==
    Saved =>
        \A p \in 1..Len(page_mcid_maps) :
            LET k == Len(page_mcid_maps[p])
            IN  IF k > 0
                THEN /\ Cardinality(EntriesFor(p - 1)) = 1
                     /\ \A i \in EntriesFor(p - 1) :
                           /\ IsArray(Nums[i][2])
                           /\ Len(Nums[i][2].items) = k
                           /\ \A m \in 0..(k - 1) :
                                 Nums[i][2].items[m + 1] = OwnerRef(<<p - 1, m>>)
                ELSE EntriesFor(p - 1) = {}

\* C4 witness: the parent tree is built for a document with a page without
\* MCIDs, a page with an owned and an unowned MCID, and a link annotation.
C4_Witness ==
    /\ Saved
    /\ \E p \in 1..Len(page_mcid_maps) : page_mcid_maps[p] = <<>>
    /\ \E p \in 1..Len(page_mcid_maps) :
          /\ Len(page_mcid_maps[p]) >= 2
          /\ \E m \in 0..(Len(page_mcid_maps[p]) - 1) : <<p - 1, m>> \in DOMAIN ownership
          /\ \E m \in 0..(Len(page_mcid_maps[p]) - 1) : <<p - 1, m>> \notin DOMAIN ownership
    /\ annot_parent_entries # <<>>

-----------------------------------------------------------------------------
(* C5 *)

\* C5: after the linker step every (page, mcid) is referred to by an MCR in the
\* /K of at most one element, a leaf, and at most once there, and the ownership
\* map sends (page, mcid) to e exactly when the /K of e holds that MCR.
C5_OneOwner ==
    Linked =>
        /\ \A key \in McidKeys :
              /\ Cardinality(Owners(key)) <= 1
              /\ Owners(key) \subseteq LeafHandles
              /\ \A h \in Handles : McrCount(h, key) <= 1
              /\ \A h \in Handles :
                    (key \in DOMAIN ownership /\ ownership[key] = h)
                        <=> h \in Owners(key)
        /\ DOMAIN ownership \subseteq McidKeys
        /\ \A h \in Handles : \A i \in 1..Len(KItems(elems[h])) :
              IsMCR(KItems(elems[h])[i]) =>
                  <<KItems(elems[h])[i].Pg, KItems(elems[h])[i].MCID>> \in McidKeys

\* the leaves whose normalised text scores above the threshold against an MCID
Candidates(key) ==
    {i \in 1..Len(leaf_elems) :
        AboveThreshold(match_score(normalize(leaf_elems[i][2].text),
                                   normalize(McidText(key))))}

\* C5 witness: the linker has run where two leaves score above the threshold
\* against one MCID, one leaf owns two MCIDs and one MCID has no owner.
C5_Witness ==
    /\ tag_pc = "linked"
    /\ \E key \in McidKeys : Cardinality(Candidates(key)) >= 2
    /\ \E h \in Handles : Cardinality({key \in McidKeys : h \in Owners(key)}) >= 2
    /\ \E key \in McidKeys : Owners(key) = {}

-----------------------------------------------------------------------------
(* C6 *)

RECURSIVE LeavesOf(_)
RECURSIVE LeavesOfAll(_)
\* the leaves of the semantic tree in depth-first order
LeavesOf(node) ==
    IF node.children = <<>> THEN <<node>> ELSE LeavesOfAll(node.children)
LeavesOfAll(nodes) ==
    IF nodes = <<>> THEN <<>> ELSE LeavesOf(Head(nodes)) \o LeavesOfAll(Tail(nodes))

First(S) == CHOOSE i \in S : \A j \in S : i <= j

\* some leaf scores exactly 3/10 against the MCID
ScoresThreshold(key) ==
    \E i \in 1..Len(leaf_elems) :
        LET s == match_score(normalize(leaf_elems[i][2].text),
                             normalize(McidText(key)))
        IN  s.den > 0 /\ ThresholdDen * s.num = ThresholdNum * s.den

\* C6: when the linker step has run, the leaves are those of the tree in
\* depth-first order; an MCID whose normalised text is not empty is owned by the first leaf
\* whose normalised text scores more than 0.3 against it and has no owner when
\* no leaf does (a score of exactly 0.3 is not enough); an MCID whose normalised
\* text is empty has no owner.
C6_FirstLeafAboveThreshold ==
    tag_pc = "linked" =>
        /\ [i \in 1..Len(leaf_elems) |-> leaf_elems[i][2]] = LeavesOf(tree)
        /\ \A key \in McidKeys :
              LET cands == Candidates(key)
              IN  IF normalize(McidText(key)) = <<>> \/ cands = {}
                  THEN key \notin DOMAIN ownership
                  ELSE /\ key \in DOMAIN ownership
                       /\ ownership[key] = leaf_elems[First(cands)][1]

\* C6 witness: the linker has run where one MCID has two leaves above the
\* threshold, one has a leaf at exactly 0.3 and none above, and one has an
\* empty normalised text.
C6_Witness ==
    /\ tag_pc = "linked"
    /\ \E key \in McidKeys :
          Cardinality(Candidates(key)) >= 2 /\ key \in DOMAIN ownership
    /\ \E key \in McidKeys :
          /\ ScoresThreshold(key)
          /\ Candidates(key) = {}
          /\ key \notin DOMAIN ownership
    /\ \E key \in McidKeys : normalize(McidText(key)) = <<>>

-----------------------------------------------------------------------------
(* C9 *)

\* the element that holds the children of element h: the LBody of a list item
\* that has one, h itself otherwise
Container(h) ==
    LET kids == Kids(elems[h])
    IN  IF elems[h].S = "LI" /\ Len(kids) = 1 /\ elems[kids[1].elem].S = "LBody"
        THEN kids[1].elem
        ELSE h

RECURSIVE Pairs(_, _)
\* the nodes of the semantic tree, each with the element built from it
Pairs(node, h) ==
    LET kids == Kids(elems[Container(h)])
    IN  {<<node, h>>} \cup
        UNION { Pairs(node.children[i], kids[i].elem) :
                i \in 1..Min(Len(node.children), Len(kids)) }

TreePairs == Pairs(tree, struct_root.K.elem)

\* the /K of h is one LBody, whose children are the elements of node's children
LBodyWraps(node, h) ==
    LET items == KItems(elems[h])
    IN  /\ Len(items) = 1
        /\ IsRef(items[1])
        /\ LET lh == items[1].elem
               kids == Kids(elems[lh])
           IN  /\ elems[lh].S = "LBody"
               /\ elems[lh].P = h
               /\ Len(KItems(elems[lh])) = Len(kids)
               /\ Len(kids) = Len(node.children)
               /\ \A i \in 1..Len(kids) :
                     /\ elems[kids[i].elem].S = PDF_TAG[node.children[i].tag]
                     /\ elems[kids[i].elem].P = lh

\* C9 as stated: the /K of every list-item element built from the tree, one
\* built from an item without children included, is exactly one LBody holding
\* the elements of the item's children.
C9_EveryItemHasLBody ==
    Built =>
        \A pr \in TreePairs :
            pr[1].tag = LIST_ITEM => LBodyWraps(pr[1], pr[2])

\* C9 amended: the /K of every list-item element built from an item that has
\* children is exactly one LBody, whose parent is the item's element and whose
\* /K holds the elements of the item's children, in order, each with the LBody
\* as its parent; the element built from an item without children is a leaf
\* with no child elements and no LBody.
C9_ItemWithChildrenHasLBody ==
    Built =>
        \A pr \in TreePairs :
            pr[1].tag = LIST_ITEM =>
                IF pr[1].children # <<>>
                THEN LBodyWraps(pr[1], pr[2])
                ELSE pr[2] \in LeafHandles /\ Kids(elems[pr[2]]) = <<>>

\* C9 witness: tag has finished on a tree with a list item that has children,
\* whose element holds one LBody, and a list item that has none.
C9_Witness ==
    /\ Saved
    /\ \E pr \in TreePairs :
          /\ pr[1].tag = LIST_ITEM
          /\ pr[1].children # <<>>
          /\ elems[pr[2]].S = "LI"
          /\ Container(pr[2]) # pr[2]
    /\ \E pr \in TreePairs :
          /\ pr[1].tag = LIST_ITEM
          /\ pr[1].children = <<>>
          /\ elems[pr[2]].S = "LI"

-----------------------------------------------------------------------------
(* C10 *)

\* C10: once the builder, the linker and the annotation linker have run, every
\* element referred to as a child in the /K of an element p has p as its /P,
\* the Link elements the annotation linker adds to the document element
\* included, and the document element has the structure tree root as its /P.
C10_ParentPointers ==
    Annotated =>
        /\ elems[struct_root.K.elem].P = StructRoot
        /\ \A p \in Handles : \A i \in 1..Len(Kids(elems[p])) :
              elems[Kids(elems[p])[i].elem].P = p

-----------------------------------------------------------------------------
(* Reading the link annotations.                                           *)

IsLinkAnnot(annot) == "Subtype" \in DOMAIN annot /\ annot.Subtype = "/Link"

PageAnnots(page) == IF "Annots" \in DOMAIN page THEN page.Annots ELSE <<>>

RECURSIVE LinkAnnotsFrom(_, _, _)
\* the positions <<p, a>> of the link annotations, in page order then
\* annotation order, from annotation a of page p on
LinkAnnotsFrom(pages_, p, a) ==
    IF p > Len(pages_) THEN <<>>
    ELSE IF a > Len(PageAnnots(pages_[p])) THEN LinkAnnotsFrom(pages_, p + 1, 1)
    ELSE (IF IsLinkAnnot(pages_[p].Annots[a]) THEN << <<p, a>> >> ELSE <<>>)
         \o LinkAnnotsFrom(pages_, p, a + 1)

LinkAnnots == LinkAnnotsFrom(pdf.pages, 1, 1)

\* the handles of the Link leaves the builder recorded, in tree order
LinkLeaves ==
    LET links == SelectSeq(leaf_elems, IsLinkLeaf)
    IN  [i \in 1..Len(links) |-> links[i][1]]

\* how many times the /K of element h refers to the annotation at <<p, a>>
ObjrCount(h, pos) ==
    LET items == KItems(elems[h])
    IN  Cardinality({i \in 1..Len(items) : items[i] = OBJR(pos[1] - 1, pos[2] - 1)})

ObjrOwners(pos) == {h \in Handles : ObjrCount(h, pos) > 0}

\* the elements the builder created: the annotation linker adds one element
\* for every link annotation beyond the Link leaves
BuilderHandles ==
    1..(Len(elems) - Max(0, Len(LinkAnnots) - Len(LinkLeaves)))

DocHandle == struct_root.K.elem

\* the description of a link annotation: URI, else destination, else "Link"
Description(annot) ==
    IF "A" \in DOMAIN annot /\ "URI" \in DOMAIN annot.A /\ annot.A.URI # <<>>
    THEN annot.A.URI
    ELSE IF "Dest" \in DOMAIN annot /\ annot.Dest # <<>> THEN annot.Dest
    ELSE LinkText

-----------------------------------------------------------------------------
(* C11 *)

\* C11: after the annotation linker, taking the link annotations in page order
\* then annotation order, the i-th is referred to by exactly one OBJR, in the
\* /K of exactly one element; that element is the i-th Link leaf of the tree
\* while there is one, otherwise a new Link element, child of the document
\* element, whose /Alt is the annotation's description; no element owns two
\* annotations, and the i-th emitted pair names that element.
C11_AnnotationOwners ==
    Annotated =>
        /\ Len(annot_parent_entries) = Len(LinkAnnots)
        /\ \A i \in 1..Len(LinkAnnots) :
              LET pos == LinkAnnots[i]
                  annot == pdf.pages[pos[1]].Annots[pos[2]]
              IN  /\ Cardinality(ObjrOwners(pos)) = 1
                  /\ \A h \in ObjrOwners(pos) :
                        /\ ObjrCount(h, pos) = 1
                        /\ annot_parent_entries[i][2] = h
                        /\ \A j \in 1..Len(LinkAnnots) :
                              h \in ObjrOwners(LinkAnnots[j]) => j = i
                        /\ IF i <= Len(LinkLeaves)
                           THEN h = LinkLeaves[i]
                           ELSE /\ h \notin BuilderHandles
                                /\ elems[h].S = "Link"
                                /\ elems[h].Alt = Description(annot)
                                /\ Ref(h) \in {Kids(elems[DocHandle])[k] :
                                                 k \in 1..Len(Kids(elems[DocHandle]))}

\* C11 witness: the annotation linker has run on two link annotations or more
\* where the tree has a Link leaf for the first only.
C11_Witness ==
    /\ Annotated
    /\ Len(LinkLeaves) >= 1
    /\ Len(LinkAnnots) > Len(LinkLeaves)
    /\ Len(elems) > Cardinality(BuilderHandles)

-----------------------------------------------------------------------------
(* C12 *)

\* C12 as stated: after the annotation linker the /Contents of every link
\* annotation is its description, whatever the annotation carried before.
C12_ContentsIsDescription ==
    Annotated =>
        \A i \in 1..Len(LinkAnnots) :
            LET annot == pdf.pages[LinkAnnots[i][1]].Annots[LinkAnnots[i][2]]
            IN  "Contents" \in DOMAIN annot /\ annot.Contents = Description(annot)

\* C12 amended: the annotation linker gives every link annotation that carries
\* no /Contents a /Contents equal to its description, and leaves the /Contents
\* of a link annotation that carries one as it is.
C12_ContentsSetWhenAbsent ==
    [][(tag_pc = "linked" /\ tag_pc' = "annotated") =>
          \A i \in 1..Len(LinkAnnots) :
              LET before == pdf.pages[LinkAnnots[i][1]].Annots[LinkAnnots[i][2]]
                  after == pdf'.pages[LinkAnnots[i][1]].Annots[LinkAnnots[i][2]]
              IN  /\ "Contents" \in DOMAIN after
                  /\ after.Contents =
                        IF "Contents" \in DOMAIN before THEN before.Contents
                        ELSE Description(before)]_vars

\* C12 witness: the annotation linker has run on a link annotation whose
\* /Contents is now its URI, one whose /Contents is now the literal, and one
\* whose /Contents is not its description.
C12_Witness ==
    /\ Annotated
    /\ \E i \in 1..Len(LinkAnnots) :
          LET annot == pdf.pages[LinkAnnots[i][1]].Annots[LinkAnnots[i][2]]
          IN  "A" \in DOMAIN annot /\ annot.Contents = annot.A.URI
    /\ \E i \in 1..Len(LinkAnnots) :
          LET annot == pdf.pages[LinkAnnots[i][1]].Annots[LinkAnnots[i][2]]
          IN  annot.Contents = LinkText
    /\ \E i \in 1..Len(LinkAnnots) :
          LET annot == pdf.pages[LinkAnnots[i][1]].Annots[LinkAnnots[i][2]]
          IN  annot.Contents # Description(annot)

-----------------------------------------------------------------------------
(* C13 *)

NumsKeys == [i \in 1..Len(Nums) |-> Nums[i][1]]

\* C13: once tag has built the parent tree of a document of N pages and A
\* link annotations, the keys of /Nums are strictly increasing; the keys of
\* the page entries are page indices below N; the annotation entries follow
\* with the keys N, N+1, ..., N+A-1 in processing order, each the
\* /StructParent of its annotation and each mapped to one element, the owner
\* emitted for it; /ParentTreeNextKey is N + A, above every key.
C13_ParentTreeKeys ==
    Saved =>
        LET N == Len(pdf.pages)
            A == Len(LinkAnnots)
            pageEntries == Len(Nums) - A
        IN  /\ pageEntries >= 0
            /\ \A i \in 1..(Len(Nums) - 1) : NumsKeys[i] < NumsKeys[i + 1]
            /\ \A i \in 1..pageEntries :
                  NumsKeys[i] \in 0..(N - 1) /\ IsArray(Nums[i][2])
            /\ \A j \in 1..A :
                  LET annot == pdf.pages[LinkAnnots[j][1]].Annots[LinkAnnots[j][2]]
                  IN  /\ NumsKeys[pageEntries + j] = N + j - 1
                      /\ annot.StructParent = N + j - 1
                      /\ Nums[pageEntries + j][2] = Ref(annot_parent_entries[j][2])
                      /\ annot_parent_entries[j][1] = N + j - 1
            /\ struct_root.ParentTreeNextKey = N + A
            /\ \A i \in 1..Len(Nums) : NumsKeys[i] < struct_root.ParentTreeNextKey

\* C13 witness: the parent tree is built with two page entries and two
\* annotation entries.
C13_Witness ==
    /\ Saved
    /\ Len(LinkAnnots) >= 2
    /\ Len(Nums) - Len(LinkAnnots) >= 2

-----------------------------------------------------------------------------
(* C14 *)

RECURSIVE SameTree(_, _)
\* tag, text and ordered children are equal at every node
SameTree(x, y) ==
    /\ x.tag = y.tag
    /\ x.text = y.text
    /\ Len(x.children) = Len(y.children)
    /\ \A i \in 1..Len(x.children) : SameTree(x.children[i], y.children[i])

\* C14: the tree read back by from_dict from the dictionary to_dict made of a
\* tree is equal to that tree: tag, text and ordered children at every node.
C14_RoundTrip ==
    json_pc = "parsed" => (json_result = json_node /\ SameTree(json_result, json_node))

\* C14 witness: a node with empty text and two children, one of them with
\* children and one with empty text and none, has been written to a
\* dictionary that has no "text" and read back.
C14_Witness ==
    /\ json_pc = "parsed"
    /\ json_node.text = <<>>
    /\ "text" \notin DOMAIN json_d
    /\ Len(json_node.children) = 2
    /\ json_node.children[1].children # <<>>
    /\ json_node.children[2].text = <<>>
    /\ DOMAIN json_d.children[2] = {"tag"}

-----------------------------------------------------------------------------
(* C15 *)

KnownTags == {TagEnum[n] : n \in DOMAIN TagEnum}

\* C15: the element built from a node with a text carries that text as /Alt,
\* and no /ActualText, when the node is a Formula, Code or Figure, and as
\* /ActualText, and no /Alt, otherwise; the element built from a node without
\* text carries neither; the element built from a node whose tag is not a
\* known one has the role Span.
C15_AltOrActualText ==
    Built =>
        \A pr \in TreePairs :
            LET node == pr[1]
                e == elems[pr[2]]
            IN  /\ IF node.text = <<>>
                   THEN "Alt" \notin DOMAIN e /\ "ActualText" \notin DOMAIN e
                   ELSE IF node.tag \in {FORMULA, CODE, FIGURE}
                   THEN /\ "Alt" \in DOMAIN e
                        /\ e.Alt = node.text
                        /\ "ActualText" \notin DOMAIN e
                   ELSE /\ "ActualText" \in DOMAIN e
                        /\ e.ActualText = node.text
                        /\ "Alt" \notin DOMAIN e
                /\ node.tag \notin KnownTags => e.S = "Span"
                /\ node.tag \in KnownTags => e.S # "Span"

\* C15 witness: elements are built from a Formula with text, a Paragraph with
\* text, a node without text and a node whose tag is not a known one.
C15_Witness ==
    /\ Built
    /\ \E pr \in TreePairs : pr[1].tag = FORMULA /\ "Alt" \in DOMAIN elems[pr[2]]
    /\ \E pr \in TreePairs : pr[1].tag = HEADING1 /\ "ActualText" \in DOMAIN elems[pr[2]]
    /\ \E pr \in TreePairs : pr[1].text = <<>> /\ pr[1].tag = SECTION
    /\ \E pr \in TreePairs : pr[1].tag \notin KnownTags /\ elems[pr[2]].S = "Span"

-----------------------------------------------------------------------------
(* C16 *)

\* the root source file is a sectioning command with a heading text followed
\* by body text, and parse has returned
SectionThenText ==
    /\ parse_pc = "returned"
    /\ Len(files[MainTex]) = 2
    /\ files[MainTex][1].type = "macro"
    /\ files[MainTex][1].macroname \in DOMAIN SECTION_MACROS
    /\ strip(files[MainTex][1].text) # <<>>
    /\ files[MainTex][2].type = "chars"
    /\ strip(files[MainTex][2].text) # <<>>

SectionHeading == DocumentNode(HEADING1, strip(files[MainTex][1].text))
BodyParagraph == DocumentNode(PARAGRAPH, strip(files[MainTex][2].text))

RECURSIVE SectionsHoldHeadingOnly(_)
\* every Section of the tree has one child, a Heading
SectionsHoldHeadingOnly(node) ==
    /\ node.tag = SECTION =>
          (Len(node.children) = 1 /\ IsHeading(node.children[1].tag))
    /\ \A i \in 1..Len(node.children) : SectionsHoldHeadingOnly(node.children[i])

\* C16 as stated: for a sectioning command followed by body text the tree is
\* Document -> Section -> [Heading, Paragraph]: the body is a child of the
\* Section, after its Heading.
C16_BodyUnderSection ==
    SectionThenText =>
        root.children =
            <<Node(SECTION, <<>>, <<SectionHeading, BodyParagraph>>)>>

\* C16, what the parser does: for a sectioning command followed by body text
\* the tree is
\* Document -> [Section -> [Heading], Paragraph]: the body is the sibling that
\* follows the Section; in every tree parse returns a Section has its Heading
\* as its only child.
C16_BodyAfterSection ==
    /\ SectionThenText =>
          root.children =
              <<Node(SECTION, <<>>, <<SectionHeading>>), BodyParagraph>>
    /\ parse_pc \in {"parsed", "returned"} => SectionsHoldHeadingOnly(root)

\* C16 witness: parse has returned the tree of \section{S} followed by text.
C16_Witness ==
    /\ SectionThenText
    /\ files[MainTex][1].macroname = "section"
    /\ Len(root.children) = 2
    /\ root.children[1].tag = SECTION

-----------------------------------------------------------------------------
(* C17 *)

RECURSIVE WellShaped(_)
\* below node: a ListItem has a List as its parent, a Heading is the first
\* child of a Section, a Formula, Code, Figure or Link has no children
WellShaped(node) ==
    \A i \in 1..Len(node.children) :
        LET child == node.children[i]
        IN  /\ child.tag = LIST_ITEM => node.tag = LIST
            /\ IsHeading(child.tag) => (node.tag = SECTION /\ i = 1)
            /\ child.tag \in {FORMULA, CODE, FIGURE, LINK} => child.children = <<>>
            /\ child.tag # DOCUMENT
            /\ WellShaped(child)

RECURSIVE TagsIn(_)
TagsIn(node) ==
    {node.tag} \cup UNION {TagsIn(node.children[i]) : i \in 1..Len(node.children)}

\* C17: in every tree parse returns the root is the Document, every ListItem
\* is a direct child of a List, every Heading is the first child of a
\* Section, and every Formula, Code, Figure and Link has no children.
C17_TreeShape ==
    parse_pc = "returned" => (root.tag = DOCUMENT /\ WellShaped(root))

\* C17 witness: parse has returned a tree with a list, items, a heading, a
\* formula, code, a figure and a link.
C17_Witness ==
    /\ parse_pc = "returned"
    /\ {LIST, LIST_ITEM, SECTION, FORMULA, CODE, FIGURE, LINK, PARAGRAPH}
           \subseteq TagsIn(root)
    /\ \E t \in TagsIn(root) : IsHeading(t)

-----------------------------------------------------------------------------
(* C18 *)

\* the text a text-drawing operator shows: for TJ the decoded strings of its
\* array in order, for Tj, ' and " the decoding of its string operand
ShownText(inst) ==
    IF inst.operator = "TJ"
    THEN LET strs == SelectSeq(inst.operands[1].items, IsString)
         IN  Concat([i \in 1..Len(strs) |-> decode_latin1(strs[i].bytes)])
    ELSE decode_latin1(SelectSeq(inst.operands, IsString)[1].bytes)

\* the text the MCID table records for an MCID
TableText(m, mcid) == m[CHOOSE i \in 1..Len(m) : m[i][1] = mcid][2]

\* C18: the text recorded for the MCID of every /Span sequence is the text its
\* operator shows (for Tj, ' and " the decoding of the string operand, for TJ
\* the decoded strings of the array in order, the numbers dropped), and the
\* properties of the sequence carry it as /ActualText exactly when it is not
\* empty.
C18_ExtractedText ==
    \A j \in 1..(Len(rw.new_instructions) - 1) :
        IsSpanBDC(rw.new_instructions[j]) =>
            LET props == rw.new_instructions[j].operands[2].dict
                text == TableText(rw.mcid_map, props.MCID)
            IN  /\ text = ShownText(rw.new_instructions[j + 1])
                /\ ("ActualText" \in DOMAIN props) <=> (text # <<>>)
                /\ "ActualText" \in DOMAIN props => props.ActualText = text

\* C18, what holds: the same for Tj, ' and TJ; for " the recorded text is
\* empty and the properties carry no /ActualText.
C18_ExtractedTextFirstOperand ==
    \A j \in 1..(Len(rw.new_instructions) - 1) :
        IsSpanBDC(rw.new_instructions[j]) =>
            LET props == rw.new_instructions[j].operands[2].dict
                text == TableText(rw.mcid_map, props.MCID)
                inst == rw.new_instructions[j + 1]
            IN  /\ text = IF inst.operator = "\"" THEN <<>> ELSE ShownText(inst)
                /\ ("ActualText" \in DOMAIN props) <=> (text # <<>>)
                /\ "ActualText" \in DOMAIN props => props.ActualText = text

\* C18 witness: a page with a Tj, a TJ and a " inside a text block is finished.
C18_Witness ==
    /\ PageFinished
    /\ \E i, j, k \in 1..Len(rw.new_instructions) :
          /\ rw.new_instructions[i].operator = "TJ"
          /\ rw.new_instructions[j].operator = "\""
          /\ rw.new_instructions[k].operator \in {"Tj", "'"}
    /\ Len(rw.mcid_map) = 3

-----------------------------------------------------------------------------
(* C19 *)

\* a non-empty stream without text-drawing operators, BT or ET
NoTextStream(s) ==
    /\ s # <<>>
    /\ \A i \in 1..Len(s) : ~IsTextOp(s[i]) /\ s[i].operator \notin {"BT", "ET"}

\* C19: the content-stream step turns the stream of a page that is not empty
\* and has no text-drawing operator, BT or ET into one BDC /Artifact, the
\* page's instructions in their order, and one EMC, and gives the page an empty
\* MCID table; the parent tree tag builds has no entry for a page whose MCID
\* table is empty.
C19_ArtifactOnlyPage ==
    /\ [][(tag_pc = "opened" /\ tag_pc' = "tagged") =>
             \A p \in 1..Len(pdf.pages) :
                 NoTextStream(pdf.pages[p].Contents) =>
                     /\ pdf'.pages[p].Contents =
                           <<ArtifactBDC>> \o pdf.pages[p].Contents \o <<EMC>>
                     /\ page_mcid_maps'[p] = <<>>]_vars
    /\ [](Saved =>
             \A p \in 1..Len(pdf.pages) :
                 page_mcid_maps[p] = <<>> => EntriesFor(p - 1) = {})

\* C19 witness: tag has finished on a document with a page of two path
\* instructions and a page with text.
C19_Witness ==
    /\ Saved
    /\ \E p \in 1..Len(pdf.pages) :
          /\ pdf.pages[p].Contents = <<ArtifactBDC, re, fill, EMC>>
          /\ page_mcid_maps[p] = <<>>
    /\ \E p \in 1..Len(pdf.pages) : page_mcid_maps[p] # <<>>

-----------------------------------------------------------------------------
(* C20 *)

IsNotMark(inst) == ~IsMark(inst)

\* C20: once a page is finished, the rewritten stream without the BDC and EMC
\* the rewriter inserted is the input stream: every instruction once, as it
\* was, in its place.  (No input instruction is a BDC or an EMC here.)
C20_InputPreserved ==
    PageFinished => SelectSeq(rw.new_instructions, IsNotMark) = instructions

-----------------------------------------------------------------------------
(* C21 *)

\* the marked-content references in an element's /K, in array order
Mcrs(h) == SelectSeq(KItems(elems[h]), IsMCR)

\* (page index, mcid) of a comes before that of b
McrBefore(a, b) == a.Pg < b.Pg \/ (a.Pg = b.Pg /\ a.MCID < b.MCID)

\* C21: once the linker has run, the MCRs in every leaf's /K are in strictly
\* ascending (page index, mcid) order, which is the order in which the pages
\* and the text operators on each page were scanned; so no MCR occurs twice.
C21_McrsAscending ==
    Linked =>
        \A h \in LeafHandles :
            \A ms \in {Mcrs(h)} :
                \A i, j \in 1..Len(ms) : i < j => McrBefore(ms[i], ms[j])

\* a leaf that claimed two MCIDs of one page, and a leaf that claimed MCIDs
\* of two pages
C21_Witness ==
    /\ tag_pc = "linked"
    /\ \E h \in LeafHandles :
           \E i, j \in 1..Len(Mcrs(h)) :
              i < j /\ Mcrs(h)[i].Pg = Mcrs(h)[j].Pg
    /\ \E h \in LeafHandles :
           \E i, j \in 1..Len(Mcrs(h)) :
              i < j /\ Mcrs(h)[i].Pg < Mcrs(h)[j].Pg

-----------------------------------------------------------------------------
(* C22 *)

RECURSIVE NoAdjacentParagraphs(_)
\* no node of the tree has two Paragraph children next to each other
NoAdjacentParagraphs(node) ==
    /\ \A i \in 1..(Len(node.children) - 1) :
           ~(node.children[i].tag = PARAGRAPH /\ node.children[i + 1].tag = PARAGRAPH)
    /\ \A i \in 1..Len(node.children) : NoAdjacentParagraphs(node.children[i])

TextFlush(text) == [flush |-> TRUE, text |-> text]
OtherChild == [flush |-> FALSE, text |-> <<>>]

RECURSIVE Flushes(_, _)
\* what a node list of the source gives the parent it is walked under, in
\* source order: a text flush with its text, or a child that is no Paragraph
Flushes(nodes, fs) ==
    IF nodes = <<>> THEN <<>>
    ELSE LET node == Head(nodes)
             name == node.macroname
             here ==
                 CASE node.type = "chars" ->
                        IF strip(node.text) # <<>> THEN <<TextFlush(strip(node.text))>>
                        ELSE <<>>
                   [] node.type = "group" -> Flushes(node.nodelist, fs)
                   [] node.type = "math" -> <<OtherChild>>
                   [] node.type = "environment" ->
                        IF name \in MATH_ENVIRONMENTS \cup CODE_ENVIRONMENTS
                                       \cup LIST_ENVIRONMENTS \cup {"figure"}
                        THEN <<OtherChild>>
                        ELSE Flushes(node.nodelist, fs)
                   [] node.type = "macro" ->
                        IF name \in DOMAIN SECTION_MACROS THEN <<OtherChild>>
                        ELSE IF name \in {"input", "include"}
                        THEN IF macro_arg_text(node) # <<>>
                                /\ include_path(macro_arg_text(node)) \in DOMAIN fs
                             THEN Flushes(fs[include_path(macro_arg_text(node))], fs)
                             ELSE <<>>
                        ELSE IF name \in {"href", "url"}
                        THEN IF \E i \in 1..Len(node.argnlist) :
                                    IsArg(node.argnlist[i])
                                    /\ strip(node.argnlist[i].text) # <<>>
                             THEN <<OtherChild>>
                             ELSE <<>>
                        ELSE IF strip(node.text) # <<>> THEN <<TextFlush(node.text)>>
                        ELSE <<>>
         IN  here \o Flushes(Tail(nodes), fs)

RECURSIVE FusedTexts(_)
\* the texts of the runs of consecutive text flushes, each run joined by
\* single spaces
FusedTexts(events) ==
    IF events = <<>> THEN <<>>
    ELSE IF ~Head(events).flush THEN FusedTexts(Tail(events))
    ELSE LET rest == FusedTexts(Tail(events))
         IN  IF Len(events) > 1 /\ events[2].flush
             THEN <<Head(events).text \o <<" ">> \o Head(rest)>> \o Tail(rest)
             ELSE <<Head(events).text>> \o rest

IsParagraph(node) == node.tag = PARAGRAPH

\* the texts of the Paragraph children of a node, in order
ParagraphTexts(node) ==
    LET ps == SelectSeq(node.children, IsParagraph)
    IN  [i \in 1..Len(ps) |-> ps[i].text]

\* the tree _parse_file built from the files, before heading normalisation
ParsedTree == parse_file(MainTex, DocumentNode(DOCUMENT, <<>>), files)

C22_Pruned ==
    /\ parse_pc = "returned"
    /\ ~NoAdjacentParagraphs(root)

-----------------------------------------------------------------------------
(* C30 *)

\* the (page, mcid) pairs an ownership map gives to element h
ClaimedBy(ownership_, h) == {key \in DOMAIN ownership_ : ownership_[key] = h}

\* the form of /K of an element that claimed the marked content in keys
KFormFor(e, keys) ==
    CASE Cardinality(keys) = 0 -> "K" \notin DOMAIN e
      [] Cardinality(keys) = 1 ->
            /\ "K" \in DOMAIN e
            /\ \E key \in keys : e.K = MCR(key[1], key[2])
      [] OTHER ->
            /\ "K" \in DOMAIN e
            /\ IsArray(e.K)
            /\ Len(e.K.items) = Cardinality(keys)
            /\ \A i \in 1..Len(e.K.items) :
                   \E key \in keys : e.K.items[i] = MCR(key[1], key[2])

\* C30: once the tree is built the linker has a result for the leaves and
\* MCID tables at hand, whatever they are; the linker step
\* creates and removes no element and leaves every element that is not a
\* leaf as it was; after it a leaf has no /K if it claimed no MCID, a single
\* MCR dictionary as /K if it claimed one, and an array of as many MCR
\* dictionaries as it claimed if it claimed two or more.
C30_LeafKForms ==
    /\ [](tag_pc = "built" =>
             \A r \in {link_structure_to_content(leaf_elems, page_mcid_maps, elems)} :
                 DOMAIN r = {"elems", "ownership"})
    /\ [][(tag_pc = "built" /\ tag_pc' = "linked") =>
             /\ Len(elems') = Len(elems)
             /\ \A h \in 1..Len(elems) :
                    IF h \in LeafHandles
                    THEN KFormFor(elems'[h], ClaimedBy(ownership', h))
                    ELSE elems'[h] = elems[h]]_vars

\* after the linker: a leaf without /K beside unclaimed MCIDs, a leaf whose
\* /K is one MCR, a leaf whose /K is an array, and an interior element
C30_Witness ==
    /\ tag_pc = "linked"
    /\ McidKeys # {}
    /\ \E h \in LeafHandles : "K" \notin DOMAIN elems[h]
    /\ \E h \in LeafHandles :
           "K" \in DOMAIN elems[h] /\ ~IsArray(elems[h].K) /\ IsMCR(elems[h].K)
    /\ \E h \in LeafHandles : "K" \in DOMAIN elems[h] /\ IsArray(elems[h].K)
    /\ \E h \in Handles \ LeafHandles : Kids(elems[h]) # <<>>

-----------------------------------------------------------------------------
(* C27 *)

IsBlockMark(inst) == inst.operator \in {"BT", "ET"}

\* the /Span sequence that opens at position j of out is BDC, one
\* text-drawing operator, EMC, and stands in an open text block
SpanInsideBlock(out, j) ==
    /\ j + 2 <= Len(out)
    /\ IsTextOp(out[j + 1])
    /\ out[j + 2] = EMC
    /\ InBlock(out, j)

\* the /Artifact sequence that opens at position b of out is closed by an EMC
\* with neither BT, ET nor another mark in between, and does not stand in an
\* open text block
ArtifactOutsideBlock(out, b) ==
    /\ ~InBlock(out, b)
    /\ \E e \in (b + 1)..Len(out) :
          /\ out[e] = EMC
          /\ \A k \in (b + 1)..(e - 1) : ~IsMark(out[k]) /\ ~IsBlockMark(out[k])

-----------------------------------------------------------------------------
(* C28 *)

IsOpen(inst) == inst.operator \in {"BDC", "BMC"}
IsClose(inst) == inst.operator = "EMC"

RECURSIVE DepthAfter(_, _, _)
\* the number of marked-content sequences open after position e of s, when
\* reading from position b on with BDC, BMC and EMC matched as a stack; an
\* EMC that closes nothing is passed over
DepthAfter(s, b, e) ==
    IF e < b THEN 0
    ELSE LET d == DepthAfter(s, b, e - 1)
         IN  IF IsOpen(s[e]) THEN d + 1
             ELSE IF IsClose(s[e]) /\ d > 0 THEN d - 1
             ELSE d

\* the positions of the EMCs that close the sequence opened at position b
Closers(s, b) ==
    {e \in (b + 1)..Len(s) :
        /\ IsClose(s[e])
        /\ DepthAfter(s, b, e) = 0
        /\ \A k \in b..(e - 1) : DepthAfter(s, b, k) > 0}

\* the rewriter's own wrappers: the input streams hold no /Span and no
\* /Artifact sequence
IsInserted(inst) == IsSpanBDC(inst) \/ IsBDC(inst, "/Artifact")

\* where the rewriter put the EMC of the wrapper it opened at position b: two
\* places on for a /Span, in front of the next BT or at the end of the stream
\* for an /Artifact
InsertedClose(out, b) ==
    IF IsSpanBDC(out[b]) THEN b + 2
    ELSE IF \E k \in (b + 1)..Len(out) : out[k].operator = "BT"
    THEN (CHOOSE k \in (b + 1)..Len(out) :
              /\ out[k].operator = "BT"
              /\ \A m \in (b + 1)..(k - 1) : out[m].operator # "BT") - 1
    ELSE Len(out)

\* the /Span sequence at position j lies in an /Artifact sequence
SpanInArtifact(out, j) ==
    \E a \in 1..(j - 1) :
        /\ IsBDC(out[a], "/Artifact")
        /\ \A e \in Closers(out, a) : e > j

MarksSound(s, out) ==
    /\ \A b \in 1..Len(out) :
           IsInserted(out[b]) => Closers(out, b) = {InsertedClose(out, b)}
    /\ DepthAfter(out, 1, Len(out)) <= DepthAfter(s, 1, Len(s))
    /\ \A j \in 1..Len(out) : IsSpanBDC(out[j]) => ~SpanInArtifact(out, j)

\* C28: once a page is finished, with BDC, BMC and EMC of the rewritten
\* stream matched as a stack, every wrapper the rewriter opened is closed by
\* the EMC the rewriter emitted for it, no more sequences are open at the end
\* than were in the input, and no /Span sequence lies in an /Artifact
\* sequence; the input may be partially tagged and its BT/ET unbalanced.
C28_MarksBalanced ==
    PageFinished => MarksSound(instructions, rw.new_instructions)

NoInputMarks(s) == \A i \in 1..Len(s) : ~IsOpen(s[i]) /\ ~IsClose(s[i])

\* C28 for input streams that hold no marked-content operator: the same
\* holds, balanced BT/ET or not.
C28_BalancedWhenUntagged ==
    (PageFinished /\ NoInputMarks(instructions)) =>
        MarksSound(instructions, rw.new_instructions)

\* a finished page with a stray ET and an unclosed BT, no marks in the input,
\* and both kinds of wrapper in the rewritten stream
C28_Witness ==
    /\ PageFinished
    /\ instructions = <<re, ET, BT, Tj_a>>
    /\ rw.new_instructions =
          <<ET, ArtifactBDC, re, EMC, BT, SpanBDC(0, <<"a">>), Tj_a, EMC>>

-----------------------------------------------------------------------------
(* Reading a run of the command line.                                      *)

Exited == cli_pc = "exited"

\* argparse took the command line
Accepted == argv.tex /\ argv.math_speech \in MATH_SPEECH_CHOICES

\* the exceptions that left main
Tracebacks ==
    {io.stderr[i] : i \in 1..Len(io.stderr)}
        \cap {"OSError", "AttributeError", "RuntimeError", "FileNotFoundError",
              "PdfError"}

Warned == \E i \in 1..Len(io.stderr) : io.stderr[i] = "warning: Ghostscript not found"

\* the font-encoding step has run; what Ghostscript did
GsRan == cli.gs # <<>>
Gs == cli.gs[1]

\* the font-encoding step created its intermediate file
IntermediateCreated == GsRan /\ Gs.found /\ Gs.writes

\* the math-speech step has run on a tree with formulas; what the worker did
WorkerRan == cli.worker # <<>> /\ tex_file.formulas # <<>>
Worker == cli.worker[1]

\* the worker process was found and run to its end
WorkerFinished ==
    /\ Worker.node /\ Worker.script /\ Worker.started
    /\ argv.math_speech = "sre" => Worker.latex2mathml

-----------------------------------------------------------------------------
(* C23 *)

\* C23: when the process has exited after the font-encoding step created its
\* intermediate file, that file is gone, whatever the exit path.
C23_IntermediateRemoved ==
    (Exited /\ IntermediateCreated) => cli.intermediate[1] \notin disk

\* C23 on the path without an error: when main returns, the intermediate file
\* the font-encoding step created is gone.
C23_RemovedOnSuccess ==
    (Exited /\ exit_code = 0 /\ IntermediateCreated) =>
        cli.intermediate[1] \notin disk

\* main has returned after a font-encoding fix: the output is there and the
\* intermediate file is not
C23_Witness ==
    /\ Exited /\ exit_code = 0
    /\ IntermediateCreated /\ cli.encoding_fixed
    /\ cli.output[1] \in disk
    /\ cli.intermediate[1] \notin disk

-----------------------------------------------------------------------------
(* C24 *)

\* with --dump-tree no PDF is opened or written, and a run that ends well has
\* printed the tree and nothing else
DumpTreeOnly ==
    argv.dump_tree =>
        /\ io.opened = {} /\ io.written = {}
        /\ (Exited /\ exit_code = 0) => io.stdout = <<[tree |-> cli.tree]>>

\* C24 as stated: the exit status is 2 exactly when a required positional
\* argument is missing, the PDF path being required unless --dump-tree is
\* given; else 1 on an argument error or a failure, else 0.
C24_ExitCodesAsStated ==
    /\ DumpTreeOnly
    /\ Exited =>
          LET missing == ~argv.tex \/ (~argv.pdf /\ ~argv.dump_tree)
          IN  IF missing THEN exit_code = 2
              ELSE IF argv.math_speech \notin MATH_SPEECH_CHOICES \/ Tracebacks # {}
              THEN exit_code = 1
              ELSE exit_code = 0

\* C24, amended: the exit status is 2 exactly when argparse rejects the
\* command line (no source path, or an option value outside its choices);
\* it is 1 when the PDF path is missing without --dump-tree, which is found
\* out only after parsing and math speech, or when an exception leaves main;
\* it is 0 otherwise, and then the tree was dumped or the output written.
C24_ExitCodes ==
    /\ DumpTreeOnly
    /\ Exited =>
          IF ~Accepted THEN exit_code = 2 /\ Tracebacks = {}
          ELSE IF Tracebacks # {} THEN exit_code = 1
          ELSE IF ~argv.pdf /\ ~argv.dump_tree
          THEN exit_code = 1 /\ io.opened = {} /\ io.written = {}
          ELSE /\ exit_code = 0
               /\ ~argv.dump_tree =>
                      /\ cli.output[1] \in io.written
                      /\ io.stdout = <<[written |-> cli.output[1]]>>

\* the run without a PDF path and without --dump-tree has ended with status 1
\* after the math-speech worker ran
C24_Witness ==
    /\ Exited /\ exit_code = 1
    /\ argv.tex /\ ~argv.pdf /\ ~argv.dump_tree
    /\ Tracebacks = {}
    /\ WorkerRan

-----------------------------------------------------------------------------
(* C25 *)

\* a run that did not take the worker's output has the formulas as they were
Untransformed == cli.tree = tex_file.formulas

\* C25 as stated: when Ghostscript or the speech worker is found and exits
\* with a non-zero status the run fails; when the tool is missing the run
\* goes on with the untransformed input.
C25_NonZeroExitFails ==
    /\ (GsRan /\ Gs.found /\ Gs.returncode # 0) => (Exited /\ exit_code = 1)
    /\ (WorkerRan /\ WorkerFinished /\ Worker.returncode # 0) =>
           (Exited /\ exit_code = 1)
    /\ (GsRan /\ ~Gs.found) => (Warned /\ cli.pdf_input = cli.args.pdf)
    /\ (WorkerRan /\ ~Worker.node) => Untransformed

\* C25, amended: a Ghostscript that is found and exits with a non-zero
\* status raises RuntimeError and the run ends with status 1 without writing
\* the output; a missing Ghostscript gives a warning and the run goes on with
\* the PDF it was given.  The exit status of the speech worker is never
\* looked at: a formula gets the speech of its line of the worker's output
\* if that line is a JSON object with a speech, and keeps its text otherwise;
\* only an output line that is JSON but no object raises.  A missing worker,
\* script or converter, a timeout or an OSError leave the formulas as they
\* were and the run goes on.
C25_ToolFailures ==
    /\ (GsRan /\ Gs.found /\ Gs.returncode # 0) =>
           /\ Exited /\ exit_code = 1
           /\ "RuntimeError" \in Tracebacks
           /\ io.written = {}
    /\ (GsRan /\ ~Gs.found) =>
           /\ Warned
           /\ cli.pdf_input = cli.args.pdf /\ ~cli.encoding_fixed
           /\ "RuntimeError" \notin Tracebacks
    /\ (WorkerRan /\ WorkerFinished) =>
           IF Worker.stdout = <<ScalarLine>>
           THEN Exited /\ exit_code = 1 /\ Tracebacks = {"AttributeError"}
           ELSE /\ "AttributeError" \notin Tracebacks
                /\ cli.tree = IF Worker.stdout = <<SpeechLine(Spoken)>>
                               THEN <<Spoken>>
                               ELSE tex_file.formulas
    /\ (WorkerRan /\ ~WorkerFinished) =>
           Untransformed /\ "AttributeError" \notin Tracebacks

\* a run that ended well although the worker exited with status 1: the
\* formula has the speech the worker printed; Ghostscript was missing
C25_Witness ==
    /\ Exited /\ exit_code = 0
    /\ WorkerRan /\ WorkerFinished /\ Worker.returncode = 1
    /\ cli.tree = <<Spoken>>
    /\ GsRan /\ ~Gs.found /\ Warned
    /\ cli.output[1] \in io.written

-----------------------------------------------------------------------------
(* C26 *)

\* C26: the dc:title written to the output is the title of the source when
\* that is not empty, and else the filename stem of the PDF given on the
\* command line, in every run; it is not empty.
C26_TitleOrInputStem ==
    io.written # {} =>
        /\ io.dc_title = IF tex_file.title # <<>> THEN tex_file.title ELSE PdfArg.stem
        /\ io.dc_title # <<>>

\* C26 as the code has it: the dc:title is the title of the source when that
\* is not empty, and else the filename stem of the path handed to tag, which
\* is the intermediate file after a font-encoding fix; it is not empty.
C26_TitleOrTaggedStem ==
    io.written # {} =>
        /\ io.dc_title = IF tex_file.title # <<>> THEN tex_file.title
                          ELSE cli.pdf_input[1].stem
        /\ io.dc_title # <<>>

\* an output written after a font-encoding fix for a source without \title
C26_Witness ==
    /\ io.written # {}
    /\ tex_file.title = <<>>
    /\ cli.encoding_fixed
    /\ ~argv.output
    /\ io.dc_title = <<"in", "_tagged", "_tmp_enc">>

-----------------------------------------------------------------------------
(* C29 *)

\* the files that file f includes and that are there
Includes(f) ==
    {include_path(macro_arg_text(files[f][i])) :
        i \in {k \in 1..Len(files[f]) : IsInclude(files[f][k])
                                        /\ macro_arg_text(files[f][k]) # <<>>}}
        \cap DOMAIN files

RECURSIVE ReachIn(_, _)
\* the files reached from the files in S by at most n inclusions
ReachIn(S, n) ==
    IF n = 0 THEN S
    ELSE ReachIn(S \cup UNION {Includes(f) : f \in S}, n - 1)

Reach(S) == ReachIn(S, Cardinality(DOMAIN files))

\* some file that the root file reaches includes itself, directly or not
Cyclic == \E f \in Reach({MainTex}) : f \in Reach(Includes(f))

\* C29: parse does not end in an exception, whatever the inclusions among the
\* source files are.
C29_ParseReturns == parse_pc # "RecursionError"

\* C29 for files without a cycle of inclusions: parse ends by returning the
\* tree and never in RecursionError, and an inclusion of a file that is not
\* there is passed over: it changes neither the tree nor the calls under way.
C29_ReturnsUnlessCyclic ==
    /\ [](parse_pc = "RecursionError" => Cyclic)
    /\ (parse_pc = "start" /\ ~Cyclic) ~> (parse_pc = "returned")
    /\ [][(parse_pc = "walking" /\ Top.pos <= Len(files[Top.path])
               /\ NextNode = BraceMacro("include", <<"z", "z">>)) =>
             (root' = root /\ call_stack' = Advanced /\ parse_pc' = parse_pc)]_vars

\* parse has returned the text of a file that was included beside an
\* inclusion of a file that is not there
C29_Witness ==
    /\ parse_pc = "returned"
    /\ files[MainTex] = <<BraceMacro("include", <<"z", "z">>), BraceMacro("input", <<"s">>)>>
    /\ SubTex \in DOMAIN files
    /\ root.children = <<DocumentNode(PARAGRAPH, <<"h", "i", " ", "h", "i">>)>>

=============================================================================
